---- MODULE Spec2Model ----
(***************************************************************************)
(* APEX TRADER: the orchestration loop (main.py), the trading engine       *)
(* (trader.py) and the SQLite ledger (database.py) as a state machine.     *)
(*                                                                         *)
(* Units.  A price p stands for p / 10 dollars.  A level (stop loss, take  *)
(* profit) l stands for l / 1000 price units, so that highest_price * 0.995*)
(* is the integer highest_price * 995.  A percentage is kept in basis      *)
(* points (1% = 100).  A quantity q stands for q / 100000 coins.  All      *)
(* arithmetic is exact on these grids.                                     *)
(***************************************************************************)
EXTENDS Integers, Sequences, FiniteSets, TLC

\* ------------------------------------------------------------------ bounds
\* Trade ids the ledger may hold (AUTOINCREMENT is unbounded in the code).
MaxTrades == 2
\* Calendar days after the first one that datetime.now().date() may reach.
MaxDay == 1
\* MAX_TRADE_DURATION counted in clock units: time_in_trade saturates here.
MaxDurationUnits == 1
\* Ledger writes that may raise an sqlite3 error in one run.
MaxLedgerFaults == 1
\* Trade ids in the runs of SpecLosses, which trades on a narrow grid.
LossMaxTrades == 3

\* ------------------------------------------------------- program constants
\* config.py: percentages are kept in basis points where they are fractional
TAKE_PROFIT_PERCENT_BP == 50
STOP_LOSS_PERCENT_BP == 30
CAPITAL_PER_TRADE_PCT == 95
MAX_DAILY_LOSS_PERCENT == 2
MAX_CONSECUTIVE_LOSSES == 3
PAUSE_AFTER_LOSSES == 3600
SCAN_INTERVAL == 60
\* main.py / trader.py literals
TickSleep == 1
LimitSleep == 3600
ErrorSleep == 60
MinCapital == 10
MinHistory == 20
ScanHistory == 60
TrailActivateBp == 100
TrailFactor == 995
MinSlFactor == 980
MaxSlFactor == 997
SlAtrMult == 2
TpAtrMult == 3
DryRunPrecision == 5

\* Python's None / an optional value: the empty or the one-element sequence.
None == <<>>
Some(x) == <<x>>
IsNone(o) == o = <<>>
The(o) == o[1]

Min(a, b) == IF a <= b THEN a ELSE b
Max(a, b) == IF a >= b THEN a ELSE b

Pow10(n) == CASE n = 0 -> 1 [] n = 1 -> 10 [] n = 2 -> 100 [] n = 3 -> 1000
              [] n = 4 -> 10000 [] OTHER -> 100000

\* Python 3 round(): to nearest, ties to even; n >= 0, d > 0.
RoundHalfEven(n, d) ==
    LET q == n \div d
        r == n % d
    IN  IF 2 * r < d THEN q
        ELSE IF 2 * r > d THEN q + 1
        ELSE IF q % 2 = 0 THEN q ELSE q + 1

\* ----------------------------------------------------------------- trader.py
\* Trader.calculate_quantity: capital / price rounded to the step's digits;
\* any exception (unknown symbol, missing filter) gives 0.  capital_c is the
\* capital in cents; the result is in 1 / 100000 coins.
calculate_quantity(price, capital_c, precision, raised) ==
    IF raised \/ price = 0 THEN 0
    ELSE RoundHalfEven(capital_c * 10 * Pow10(precision), 100 * price)
             * Pow10(DryRunPrecision - precision)

\* Targets whose fixed percentages have their signs exchanged: the fallback
\* puts the take profit below the entry price and the stop loss above it.
calculate_atr_targets_inverted(entry_price, hist_len, volatility) ==
    IF hist_len < MinHistory
    THEN [tp |-> (entry_price * (10000 - TAKE_PROFIT_PERCENT_BP)) \div 10,
          sl |-> (entry_price * (10000 + STOP_LOSS_PERCENT_BP)) \div 10]
    ELSE LET atr      == (entry_price * volatility) \div 10
             sl_price == entry_price * 1000 - SlAtrMult * atr
             tp_price == entry_price * 1000 + TpAtrMult * atr
             min_sl   == entry_price * MinSlFactor
             max_sl   == entry_price * MaxSlFactor
         IN  [tp |-> tp_price, sl |-> Max(min_sl, Min(sl_price, max_sl))]

\* Targets without the safety bounds: the stop loss is entry - 2 ATR as it is.
calculate_atr_targets_unclamped(entry_price, hist_len, volatility) ==
    IF hist_len < MinHistory
    THEN [tp |-> (entry_price * (10000 + TAKE_PROFIT_PERCENT_BP)) \div 10,
          sl |-> (entry_price * (10000 - STOP_LOSS_PERCENT_BP)) \div 10]
    ELSE LET atr      == (entry_price * volatility) \div 10
             sl_price == entry_price * 1000 - SlAtrMult * atr
             tp_price == entry_price * 1000 + TpAtrMult * atr
         IN  [tp |-> tp_price, sl |-> sl_price]

\* Trader.calculate_atr_targets: [tp, sl] as levels.  volatility is
\* Indicators.calculate_volatility(price_history) in basis points.
calculate_atr_targets(entry_price, hist_len, volatility) ==
    IF hist_len < MinHistory
    THEN [tp |-> (entry_price * (10000 + TAKE_PROFIT_PERCENT_BP)) \div 10,
          sl |-> (entry_price * (10000 - STOP_LOSS_PERCENT_BP)) \div 10]
    ELSE LET atr      == (entry_price * volatility) \div 10
             sl_price == entry_price * 1000 - SlAtrMult * atr
             tp_price == entry_price * 1000 + TpAtrMult * atr
             min_sl   == entry_price * MinSlFactor
             max_sl   == entry_price * MaxSlFactor
         IN  [tp |-> tp_price, sl |-> Max(min_sl, Min(sl_price, max_sl))]

\* ((price - entry_price) / entry_price) * 100, in basis points
ProfitBp(price, entry_price) == ((price - entry_price) * 10000) \div entry_price

\* The pairs of a price and an entry price, among the prices used here, with
\* a profit of exactly 1% whose quotient ((price - entry_price) / entry_price)
\* * 100 comes out above 1.0 in binary floating point: 30.3 over 30.0 gives
\* 1.0000000000000024 (101.0 over 100.0 gives 1.0).
FloatAboveOnePercent == {<<303, 300>>}

\* trader.py 284: profit_percent > 1.0, as the floats compare
ProfitAboveTrail(price, entry_price) ==
    \/ ProfitBp(price, entry_price) > TrailActivateBp
    \/ <<price, entry_price>> \in FloatAboveOnePercent

\* trader.py 283-289: the stop the tick compares the price against; above is
\* profit_percent > 1.0
TickStop(initial_sl, highest, above) ==
    LET new_stop == highest * TrailFactor
    IN  IF above /\ new_stop > initial_sl
        THEN new_stop ELSE initial_sl

\* An exit decision that looks at the stop before the take profit.
ExitReason_stopfirst(price, tp, stop, trailing, elapsed) ==
    IF price * 1000 <= stop
    THEN Some(IF ~trailing THEN "STOP_LOSS_DYNAMIC" ELSE "TRAILING_STOP")
    ELSE IF price * 1000 >= tp THEN Some("TAKE_PROFIT_DYNAMIC")
    ELSE IF elapsed >= MaxDurationUnits THEN Some("MAX_DURATION")
    ELSE None

\* An exit decision without the time limit.
ExitReason_untimed(price, tp, stop, trailing, elapsed) ==
    IF price * 1000 >= tp THEN Some("TAKE_PROFIT_DYNAMIC")
    ELSE IF price * 1000 <= stop
         THEN Some(IF ~trailing THEN "STOP_LOSS_DYNAMIC" ELSE "TRAILING_STOP")
    ELSE None

\* trader.py 296-313: the exit decision of one tick, None when it stays open
ExitReason(price, tp, stop, trailing, elapsed) ==
    IF price * 1000 >= tp THEN Some("TAKE_PROFIT_DYNAMIC")
    ELSE IF price * 1000 <= stop
         THEN Some(IF ~trailing THEN "STOP_LOSS_DYNAMIC" ELSE "TRAILING_STOP")
    ELSE IF elapsed >= MaxDurationUnits THEN Some("MAX_DURATION")
    ELSE None

\* --------------------------------------------------------------- database.py
\* One row of the trades table; its id is its index in the table.
OpenRow(date, symbol, entry_price, quantity) ==
    [date |-> date, symbol |-> symbol, entry_price |-> entry_price,
     quantity |-> quantity, status |-> "OPEN", exit_price |-> None,
     profit_percent |-> None, duration |-> None, exit_reason |-> None]

\* the UPDATE of Database.log_trade_exit at the date now; the duration is
\* counted in days
ClosedRow(row, exit_price, exit_reason, now) ==
    [row EXCEPT !.exit_price = Some(exit_price),
                !.profit_percent = Some(ProfitBp(exit_price, row.entry_price)),
                !.status = "CLOSED",
                !.duration = Some(now - row.date),
                !.exit_reason = Some(exit_reason)]

RowProfit(row) == The(row.profit_percent)

\* SUM(profit_percent) over the rows ids of the table
RECURSIVE SumProfit(_, _)
SumProfit(table, ids) ==
    IF ids = {} THEN 0
    ELSE LET i == CHOOSE x \in ids : TRUE
         IN  RowProfit(table[i]) + SumProfit(table, ids \ {i})

\* the SELECT of Database.update_daily_performance: today's CLOSED trades
ClosedOn(table, date) ==
    {i \in 1..Len(table) : table[i].date = date /\ table[i].status = "CLOSED"}

SetMax(S) == CHOOSE x \in S : \A y \in S : y <= x
SetMin(S) == CHOOSE x \in S : \A y \in S : x <= y

\* SUM(duration_seconds) over the rows ids of the table
RECURSIVE SumDuration(_, _)
SumDuration(table, ids) ==
    IF ids = {} THEN 0
    ELSE LET i == CHOOSE x \in ids : TRUE
         IN  The(table[i].duration) + SumDuration(table, ids \ {i})

\* The row Database.update_daily_performance computes from the CLOSED trades
\* ids of the date (database.py 174-203).  The win rate is in hundredths of
\* a percent; the average duration is truncated as int() does.
PerformanceRow(table, ids, pcs, date) ==
    [date |-> date,
     total_trades |-> Cardinality(ids),
     winning_trades |-> Cardinality({pc_ \in pcs : pc_[2] > 0}),
     losing_trades |-> Cardinality({pc_ \in pcs : pc_[2] < 0}),
     total_profit_percent |-> SumProfit(table, ids),
     win_rate |-> (Cardinality({pc_ \in pcs : pc_[2] > 0}) * 10000)
                      \div Cardinality(ids),
     best_trade |-> SetMax({pc_[2] : pc_ \in pcs}),
     worst_trade |-> SetMin({pc_[2] : pc_ \in pcs}),
     avg_trade_duration |-> SumDuration(table, ids) \div Cardinality(ids)]

\* INSERT OR REPLACE of the date's row (date is UNIQUE) when at least one
\* trade of that date is CLOSED, nothing otherwise (database.py 189-203).
UpsertPerformance(table, performance, ids, date) ==
    IF ids = {} THEN performance
    ELSE {r \in performance : r.date # date} \cup
         {PerformanceRow(table, ids, {<<i, RowProfit(table[i])>> : i \in ids}, date)}

\* Database.update_daily_performance.  The performance table is the set of
\* its rows.
update_daily_performance(table, performance, date) ==
    UpsertPerformance(table, performance, ClosedOn(table, date), date)

\* Database.get_daily_stats: today's row, zeros when there is none
get_daily_stats(performance, date) ==
    IF \E r \in performance : r.date = date
    THEN CHOOSE r \in performance : r.date = date
    ELSE [date |-> date,
          total_trades |-> 0, winning_trades |-> 0, losing_trades |-> 0,
          total_profit_percent |-> 0, best_trade |-> 0, worst_trade |-> 0]

\* The ids of the rows the table holds.  AUTOINCREMENT never gives an id
\* twice, so a row deleted from the file keeps its place, with status
\* "DELETED", and no SELECT finds it.
RowIds(table) == {i \in 1..Len(table) : table[i].status # "DELETED"}

\* Database.get_recent_trades(limit=1): ORDER BY timestamp DESC LIMIT 1.
\* Timestamps grow with insertion, so the newest row is the last one.
get_recent_trades(table) ==
    IF RowIds(table) = {} THEN <<>> ELSE <<table[SetMax(RowIds(table))]>>

\* ------------------------------------------------------------------- state
VARIABLES
    config,    \* the values config.py read from the environment, fixed for the run
    pc,        \* where ApexTrader.run is: "loop", "exited" (sys.exit), "stopped"
    running,   \* ApexTrader.running
    today,     \* datetime.now().date(), counted in days from the start
    trader,    \* the Trader object's fields
    db,        \* the SQLite file: the trades, performance and system_state tables
    stats,     \* ApexTrader.stats
    faults,    \* ledger writes that raised and rows deleted so far (environment)
    ev,        \* what the last loop iteration or handler did (observation)
    scanner,   \* the CoinScanner object's price_cache
    clock      \* time.time(), in seconds from the start

vars == <<config, pc, running, today, trader, db, stats, faults, ev, scanner, clock>>

\* the requests for a price series the scanner gets: symbol, interval, limit
PriceRequests == {<<"BTCUSDT", "1m", 100>>, <<"DOGEUSDT", "1m", 100>>}

\* scanner.py 62: the cache key.  Symbols and intervals have no "_", so two
\* requests have the same key only when they are the same request.
cache_key(symbol, interval, limit) == <<symbol, interval, limit>>

\* CoinScanner.__init__ (scanner.py 28): the cache is empty
NewScanner == [price_cache |-> [k \in PriceRequests |-> None]]

\* Trader.__init__ (trader.py 33-41)
InitTrader ==
    [current_position |-> None, entry_time |-> None, time_in_trade |-> 0,
     initial_stop_loss |-> 0, initial_take_profit |-> 0,
     trailing_stop_active |-> FALSE, highest_price |-> 0,
     stop_loss_price |-> None]

\* Database.init_database on a fresh file: the trades, performance and
\* system_state tables, empty
InitDb == [trades |-> <<>>, performance |-> {}, system_state |-> {}]

\* the keys of the system_state table a caller uses
StateKeys == {"last_run", "paused"}

\* What one loop iteration or handler did: the operation, what it returned,
\* the orders it placed, the exit reason, the Trader's fields exit_trade was
\* called on, the capital and quantity enter_trade sized, the governor's
\* verdict and the sleeps; for the signal handler, the operation it
\* interrupted, whether that operation's sell had filled, and the status
\* sys.exit ended the process with; for a tick, that it ran and the price it
\* fetched; for a call of the system-state store, its key, the value or the
\* default it was given and what get_state returned, with the value of the
\* last set_state that returned, for each key; for a price series request,
\* its cache key, how the call of the exchange ended ("none" when the
\* exchange was not called) and the series returned; for an indicator, its
\* inputs and what it computed.
NoEvent ==
    [op |-> "init", ret |-> "none", buy |-> "none", sell |-> "none",
     reason |-> None, at_exit |-> None, sized |-> None,
     governor |-> "none", cooldown |-> FALSE, scanned |-> FALSE, sleeps |-> <<>>,
     during |-> "none", sold_before |-> FALSE, exit_code |-> None,
     ticked |-> FALSE, price |-> None, opportunity |-> None,
     market |-> None, scan |-> None, exit_price |-> None, read |-> None,
     state_key |-> None, state_value |-> None,
     cache_key |-> None, fetch |-> "none", prices |-> None, indicator |-> None,
     last_set |-> [k \in StateKeys |-> None]]

\* The risk limits of config.py 30-32 a run may be configured with.
Configs(trades_per_day) ==
    {[MAX_TRADES_PER_DAY |-> n,
      MAX_DAILY_LOSS_PERCENT |-> MAX_DAILY_LOSS_PERCENT,
      MAX_CONSECUTIVE_LOSSES |-> MAX_CONSECUTIVE_LOSSES] : n \in trades_per_day}

\* ApexTrader.__init__ and the start of run, under one of the configurations
InitWith(configs) ==
    /\ config \in configs
    /\ pc = "loop"
    /\ running = TRUE
    /\ today = 0
    /\ trader = InitTrader
    /\ db = InitDb
    /\ stats = [trades_today |-> 0, consecutive_losses |-> 0, daily_pnl |-> 0]
    /\ faults = 0
    /\ ev = NoEvent
    /\ scanner = NewScanner
    /\ clock = 0

Init == InitWith(Configs({1, 2}))

\* A has_open_position that never sees the position: the loop scans and
\* enters with a position open.
has_open_position_blind(t) == FALSE

\* Trader.has_open_position
has_open_position(t) == ~IsNone(t.current_position)

\* ------------------------------------------------------ ledger operations
\* Database.log_trade_entry: the INSERT, or an sqlite3 error with nothing
\* written.  Returns the new tables and the id (0 when it raised).
log_trade_entry(d, date, symbol, entry_price, quantity, fault) ==
    IF fault # "none"
    THEN [db |-> d, raised |-> TRUE, trade_id |-> 0]
    ELSE [db |-> [d EXCEPT !.trades =
                     Append(d.trades, OpenRow(date, symbol, entry_price, quantity))],
          raised |-> FALSE,
          trade_id |-> Len(d.trades) + 1]

\* database.py 138-164: the UPDATE is committed as table, then the day's
\* performance is recomputed, unless that raises.
CommitExit(d, table, date, fault) ==
    IF fault = "after_update"
    THEN [db |-> [d EXCEPT !.trades = table], raised |-> TRUE]
    ELSE [db |-> [d EXCEPT
                     !.trades = table,
                     !.performance = update_daily_performance(table, d.performance,
                                                              date)],
          raised |-> FALSE]

\* A log_trade_exit that records the close as a new CLOSED row and leaves the
\* OPEN row as it is.
log_trade_exit_appending(d, date, trade_id, exit_price, exit_reason, fault) ==
    IF fault = "before_update" THEN [db |-> d, raised |-> TRUE]
    ELSE IF trade_id \notin RowIds(d.trades) THEN [db |-> d, raised |-> FALSE]
    ELSE CommitExit(d, Append(d.trades,
                              ClosedRow(d.trades[trade_id], exit_price,
                                        exit_reason, date)),
                    date, fault)

\* Database.log_trade_exit.  fault: "none", "before_update" (the error comes
\* before the UPDATE is committed) or "after_update" (the UPDATE is committed
\* and update_daily_performance raises).
log_trade_exit(d, date, trade_id, exit_price, exit_reason, fault) ==
    IF fault = "before_update" THEN [db |-> d, raised |-> TRUE]
    ELSE IF trade_id \notin RowIds(d.trades) THEN [db |-> d, raised |-> FALSE]
    ELSE CommitExit(d, [d.trades EXCEPT
                           ![trade_id] = ClosedRow(@, exit_price, exit_reason, date)],
                    date, fault)

\* ------------------------------------------------------- trader operations
\* Each operation maps the Trader's fields t and the tables d to the fields
\* and tables it leaves behind, with what it returned ("True", "False" or
\* "raise" for an exception leaving the method) and the orders it placed.
\* An order is None when the exchange rejects it, else Some(fill price).

\* trader.py 348-368: after the sell filled and log_trade_exit returned or
\* raised; the position is cleared only when it returned.
ExitLogged(t, logged) ==
    IF logged.raised
    THEN [trader |-> t, db |-> logged.db, ret |-> "raise", sell |-> "filled"]
    ELSE [trader |-> [t EXCEPT !.current_position = None,
                               !.entry_time = None,
                               !.time_in_trade = 0,
                               !.highest_price = 0,
                               !.trailing_stop_active = FALSE,
                               !.stop_loss_price = None],
          db |-> logged.db, ret |-> "True", sell |-> "filled"]

\* An exit_trade that clears the position although the sell order failed.
exit_trade_clearing(t, d, date, reason, order, fault) ==
    IF IsNone(t.current_position)
    THEN [trader |-> t, db |-> d, ret |-> "False", sell |-> "none"]
    ELSE IF IsNone(order)
    THEN [ExitLogged(t, [db |-> d, raised |-> FALSE])
             EXCEPT !.ret = "False", !.sell = "rejected"]
    ELSE ExitLogged(t, log_trade_exit(d, date, The(t.current_position).trade_id,
                                      The(order), reason, fault))

\* Trader.exit_trade (trader.py 324-368)
exit_trade(t, d, date, reason, order, fault) ==
    IF IsNone(t.current_position)
    THEN [trader |-> t, db |-> d, ret |-> "False", sell |-> "none"]
    ELSE IF IsNone(order)
    THEN [trader |-> t, db |-> d, ret |-> "False", sell |-> "rejected"]
    ELSE ExitLogged(t, log_trade_exit(d, date, The(t.current_position).trade_id,
                                      The(order), reason, fault))

\* trader.py 315-322: the tick calls exit_trade with the reason it found.
\* at_exit keeps the fields exit_trade was called on.
TickExit(x, exit_reason, t1) ==
    [trader |-> x.trader, db |-> x.db, ret |-> x.ret, sell |-> x.sell,
     reason |-> exit_reason, at_exit |-> Some(t1)]

\* trader.py 296-322: exit with the reason found, or stay open
TickDecide(t1, d, date, exit_reason, order, fault) ==
    IF IsNone(exit_reason)
    THEN [trader |-> t1, db |-> d, ret |-> "True", sell |-> "none",
          reason |-> None, at_exit |-> None]
    ELSE TickExit(exit_trade(t1, d, date, The(exit_reason), order, fault),
                  exit_reason, t1)

\* trader.py 271-313: the high-water mark, the trailing flag and the stop
\* the price is compared against, then the exit decision
TickStopped(t, d, date, highest, trailing, stop, current_price, order, fault) ==
    TickDecide([t EXCEPT !.highest_price = highest,
                         !.trailing_stop_active = trailing,
                         !.stop_loss_price = Some(stop)],
               d, date,
               ExitReason(current_price, t.initial_take_profit, stop, trailing,
                          t.time_in_trade),
               order, fault)

TickPriced(t, d, date, current_price, highest, above, order, fault) ==
    TickStopped(t, d, date, highest,
                IF above THEN TRUE ELSE t.trailing_stop_active,
                TickStop(t.initial_stop_loss, highest, above),
                current_price, order, fault)

\* A tick that takes the price it fetched as the high-water mark, higher or
\* not.
monitor_position_lastprice(t, d, date, price, order, fault) ==
    IF IsNone(t.current_position)
    THEN [trader |-> t, db |-> d, ret |-> "False", sell |-> "none",
          reason |-> None, at_exit |-> None]
    ELSE IF IsNone(price)
    THEN [trader |-> t, db |-> d, ret |-> "True", sell |-> "none",
          reason |-> None, at_exit |-> None]
    ELSE TickPriced(t, d, date, The(price), The(price),
                    ProfitAboveTrail(The(price),
                                     The(t.current_position).entry_price),
                    order, fault)

\* A tick that takes a failed price fetch for a price at the stop and exits.
monitor_position_failstop(t, d, date, price, order, fault) ==
    IF IsNone(t.current_position)
    THEN [trader |-> t, db |-> d, ret |-> "False", sell |-> "none",
          reason |-> None, at_exit |-> None]
    ELSE IF IsNone(price)
    THEN TickDecide(t, d, date, Some("STOP_LOSS_DYNAMIC"), order, fault)
    ELSE TickPriced(t, d, date, The(price),
                    IF The(price) > t.highest_price THEN The(price)
                    ELSE t.highest_price,
                    ProfitAboveTrail(The(price),
                                     The(t.current_position).entry_price),
                    order, fault)

\* Trader.monitor_position (trader.py 256-322).  price is None when the
\* ticker call fails.
monitor_position(t, d, date, price, order, fault) ==
    IF IsNone(t.current_position)
    THEN [trader |-> t, db |-> d, ret |-> "False", sell |-> "none",
          reason |-> None, at_exit |-> None]
    ELSE IF IsNone(price)
    THEN [trader |-> t, db |-> d, ret |-> "True", sell |-> "none",
          reason |-> None, at_exit |-> None]
    ELSE TickPriced(t, d, date, The(price),
                    IF The(price) > t.highest_price THEN The(price)
                    ELSE t.highest_price,
                    ProfitAboveTrail(The(price),
                                     The(t.current_position).entry_price),
                    order, fault)

\* trader.py 233-254: the ledger entry, then the position is stored
EnterLogged(t1, date, opportunity, fill_price, quantity, targets, logged) ==
    IF logged.raised
    THEN [trader |-> t1, db |-> logged.db, ret |-> "raise", buy |-> "filled"]
    ELSE [trader |-> [t1 EXCEPT
                         !.current_position = Some(
                             [trade_id |-> logged.trade_id,
                              symbol |-> opportunity.symbol,
                              entry_price |-> fill_price,
                              quantity |-> quantity,
                              tp_price |-> targets.tp,
                              sl_price |-> targets.sl]),
                         !.entry_time = Some(date),
                         !.time_in_trade = 0,
                         !.stop_loss_price = None],
          db |-> logged.db, ret |-> "True", buy |-> "filled"]

\* trader.py 209-240: the buy filled; the risk state is set before the
\* ledger is written
EnterFilled(t, d, date, opportunity, fill_price, quantity, targets, fault) ==
    EnterLogged([t EXCEPT !.initial_take_profit = targets.tp,
                          !.initial_stop_loss = targets.sl,
                          !.highest_price = fill_price,
                          !.trailing_stop_active = FALSE],
                date, opportunity, fill_price, quantity, targets,
                log_trade_entry(d, date, opportunity.symbol, fill_price, quantity,
                                fault))

\* trader.py 189-197: the capital to use, in cents, and the quantity it buys
Sizing(opportunity, balance, precision, q_raised) ==
    [capital_c |-> balance * CAPITAL_PER_TRADE_PCT,
     quantity |-> calculate_quantity(opportunity.current_price,
                                     balance * CAPITAL_PER_TRADE_PCT,
                                     precision, q_raised)]

\* An entry that sets the high-water mark before the buy order is placed, so
\* that a rejected order leaves it behind.
EnterSized_marking(t, d, date, opportunity, sizing, order, fault) ==
    IF sizing.capital_c < MinCapital * 100
    THEN [trader |-> t, db |-> d, ret |-> "False", buy |-> "none"]
    ELSE IF sizing.quantity = 0
    THEN [trader |-> t, db |-> d, ret |-> "False", buy |-> "none"]
    ELSE IF IsNone(order)
    THEN [trader |-> [t EXCEPT !.highest_price = opportunity.current_price],
          db |-> d, ret |-> "False", buy |-> "rejected"]
    ELSE EnterFilled(t, d, date, opportunity, The(order), sizing.quantity,
                     calculate_atr_targets(The(order), opportunity.hist_len,
                                           opportunity.volatility),
                     fault)

\* trader.py 193-207: the rejections, then the buy order
EnterSized(t, d, date, opportunity, sizing, order, fault) ==
    IF sizing.capital_c < MinCapital * 100
    THEN [trader |-> t, db |-> d, ret |-> "False", buy |-> "none"]
    ELSE IF sizing.quantity = 0
    THEN [trader |-> t, db |-> d, ret |-> "False", buy |-> "none"]
    ELSE IF IsNone(order)
    THEN [trader |-> t, db |-> d, ret |-> "False", buy |-> "rejected"]
    ELSE EnterFilled(t, d, date, opportunity, The(order), sizing.quantity,
                     calculate_atr_targets(The(order), opportunity.hist_len,
                                           opportunity.volatility),
                     fault)

\* Trader.enter_trade (trader.py 176-254).  balance is what
\* get_account_balance returns, in dollars.
enter_trade(t, d, date, opportunity, balance, precision, q_raised, order, fault) ==
    EnterSized(t, d, date, opportunity,
               Sizing(opportunity, balance, precision, q_raised), order, fault)

\* -------------------------------------------------------------- main.py
\* A governor that blocks only above MAX_TRADES_PER_DAY: one trade too many.
check_daily_limits_above(cfg, st, daily_stats) ==
    IF daily_stats.total_trades > cfg.MAX_TRADES_PER_DAY
    THEN [allowed |-> FALSE, governor |-> "trades", cooldown |-> FALSE, stats |-> st]
    ELSE IF daily_stats.total_profit_percent <= -(cfg.MAX_DAILY_LOSS_PERCENT * 100)
    THEN [allowed |-> FALSE, governor |-> "loss", cooldown |-> FALSE, stats |-> st]
    ELSE IF st.consecutive_losses >= cfg.MAX_CONSECUTIVE_LOSSES
    THEN [allowed |-> TRUE, governor |-> "allow", cooldown |-> TRUE,
          stats |-> [st EXCEPT !.consecutive_losses = 0]]
    ELSE [allowed |-> TRUE, governor |-> "allow", cooldown |-> FALSE, stats |-> st]

\* A governor that reports the limit it found and lets the loop go on.
check_daily_limits_advisory(cfg, st, daily_stats) ==
    IF daily_stats.total_trades >= cfg.MAX_TRADES_PER_DAY
    THEN [allowed |-> TRUE, governor |-> "trades", cooldown |-> FALSE, stats |-> st]
    ELSE IF daily_stats.total_profit_percent <= -(cfg.MAX_DAILY_LOSS_PERCENT * 100)
    THEN [allowed |-> TRUE, governor |-> "loss", cooldown |-> FALSE, stats |-> st]
    ELSE IF st.consecutive_losses >= cfg.MAX_CONSECUTIVE_LOSSES
    THEN [allowed |-> TRUE, governor |-> "allow", cooldown |-> TRUE,
          stats |-> [st EXCEPT !.consecutive_losses = 0]]
    ELSE [allowed |-> TRUE, governor |-> "allow", cooldown |-> FALSE, stats |-> st]

\* ApexTrader.check_daily_limits (main.py 48-69) on today's statistics:
\* whether trading is allowed, which limit blocked, whether it paused, and
\* the consecutive-loss counter it leaves.
check_daily_limits(cfg, st, daily_stats) ==
    IF daily_stats.total_trades >= cfg.MAX_TRADES_PER_DAY
    THEN [allowed |-> FALSE, governor |-> "trades", cooldown |-> FALSE, stats |-> st]
    ELSE IF daily_stats.total_profit_percent <= -(cfg.MAX_DAILY_LOSS_PERCENT * 100)
    THEN [allowed |-> FALSE, governor |-> "loss", cooldown |-> FALSE, stats |-> st]
    ELSE IF st.consecutive_losses >= cfg.MAX_CONSECUTIVE_LOSSES
    THEN [allowed |-> TRUE, governor |-> "allow", cooldown |-> TRUE,
          stats |-> [st EXCEPT !.consecutive_losses = 0]]
    ELSE [allowed |-> TRUE, governor |-> "allow", cooldown |-> FALSE, stats |-> st]

\* main.py 77-85: the last trade's result moves the consecutive-loss counter
CountLastTrade(st1, recent_trades) ==
    IF recent_trades = <<>> THEN st1
    ELSE IF recent_trades[1].status = "CLOSED"
         THEN IF RowProfit(recent_trades[1]) < 0
              THEN [st1 EXCEPT !.consecutive_losses = @ + 1]
              ELSE [st1 EXCEPT !.consecutive_losses = 0]
         ELSE st1

\* main.py 73-75
CopyDailyStats(st, daily_stats) ==
    [st EXCEPT !.trades_today = daily_stats.total_trades,
               !.daily_pnl = daily_stats.total_profit_percent]

\* ApexTrader.update_stats (main.py 71-85)
update_stats(st, d, date) ==
    CountLastTrade(CopyDailyStats(st, get_daily_stats(d.performance, date)),
                   get_recent_trades(d.trades))

\* --------------------------------------------------- the orchestration loop
\* The environment of a run is a world w: the grids its inputs are drawn
\* from and the bounds of its counters.
Orders(fills) == {None} \cup {Some(f) : f \in fills}

\* The faults a ledger write may suffer once the order filled
WriteFaults(w, order, kinds) ==
    IF IsNone(order) \/ faults >= w.max_faults THEN {"none"} ELSE kinds

Faulted(fault) == IF fault = "none" THEN faults ELSE faults + 1

\* The opportunities enter_trade is called with: the length of price_history
\* and its volatility.  CoinScanner.get_best_opportunity keeps the last
\* ScanHistory closes of the instrument it returns; another caller may pass
\* any list.
Opportunities(w) ==
    {[symbol |-> s, current_price |-> p, hist_len |-> h, volatility |-> v] :
        s \in w.symbols, p \in w.opp_prices, h \in w.hist_lens, v \in w.vols}

\* time.sleep while a position is open: the clock moves on by dt units
Elapse(t, dt) ==
    IF has_open_position(t)
    THEN [t EXCEPT !.time_in_trade = Min(@ + dt, MaxDurationUnits)]
    ELSE t

\* main.py 137-141 (and 182-185 when the tick raises): one monitoring tick
\* whose price fetch gives one of prices, whose sell order gives one of orders
\* and whose sleep takes one of dts.  The sell order and the ledger fault are
\* drawn only when the tick sells.
MonitorTickWith(w, prices, orders, dts) ==
    /\ pc = "loop" /\ running
    /\ has_open_position(trader)
    /\ \E price \in prices :
          LET sells == monitor_position(trader, db, today, price, None, "none").sell
                           # "none"
          IN  \E order \in (IF sells THEN orders ELSE {None}) :
              \E fault \in WriteFaults(w, order, w.exit_faults) :
                 \E r \in {monitor_position(trader, db, today, price, order, fault)} :
                 \E dt \in (IF has_open_position(r.trader) THEN dts ELSE {0}) :
                     /\ trader' = Elapse(r.trader, dt)
                     /\ db' = r.db
                     /\ faults' = Faulted(fault)
                     /\ ev' = [NoEvent EXCEPT
                                  !.op = "monitor", !.ret = r.ret,
                                  !.sell = r.sell, !.reason = r.reason,
                                  !.at_exit = r.at_exit,
                                  !.ticked = TRUE, !.price = price,
                                  !.sleeps = IF r.ret = "raise" THEN <<ErrorSleep>>
                                             ELSE <<TickSleep>>]
    /\ UNCHANGED <<scanner, clock, config, pc, running, today, stats>>

\* one monitoring tick, with a price fetch and a sell order that fail or
\* succeed
MonitorTick(w) ==
    MonitorTickWith(w, Orders(w.tick_prices), Orders(w.sell_fills), 0..1)

\* main.py 143-147: the governor blocks and the loop waits an hour
GovernorBlocks ==
    /\ pc = "loop" /\ running
    /\ ~has_open_position(trader)
    /\ \E g \in {check_daily_limits(config, stats,
                                    get_daily_stats(db.performance, today))} :
           /\ ~g.allowed
           /\ stats' = g.stats
           /\ ev' = [NoEvent EXCEPT !.op = "governor", !.governor = g.governor,
                                    !.sleeps = <<LimitSleep>>]
    /\ UNCHANGED <<scanner, clock, config, pc, running, today, trader, db, faults>>

\* A loop without the except clause: the error of the statistics read leaves
\* run.
GovernorReadFails_fatal(w) ==
    /\ pc = "loop" /\ running
    /\ ~has_open_position(trader)
    /\ w.read_faults
    /\ pc' = "stopped"
    /\ ev' = [NoEvent EXCEPT !.op = "governor", !.ret = "raise"]
    /\ UNCHANGED <<scanner, clock, config, running, today, trader, db, stats, faults>>

\* main.py 143-144, 182-185: reading today's statistics raises
GovernorReadFails(w) ==
    /\ pc = "loop" /\ running
    /\ ~has_open_position(trader)
    /\ w.read_faults
    /\ ev' = [NoEvent EXCEPT !.op = "governor", !.ret = "raise",
                             !.sleeps = <<ErrorSleep>>]
    /\ UNCHANGED <<scanner, clock, config, pc, running, today, trader, db, stats, faults>>

\* main.py 143-177: the governor allows; one scan, at most one entry.  The
\* buy order and the ledger fault are drawn only when enter_trade gets there.
ScanCycle(w) ==
    /\ pc = "loop" /\ running
    /\ ~has_open_position(trader)
    /\ \E g \in {check_daily_limits(config, stats,
                                    get_daily_stats(db.performance, today))} :
       LET pause == IF g.cooldown THEN <<PAUSE_AFTER_LOSSES>> ELSE <<>>
           seen == [NoEvent EXCEPT !.op = "scan", !.governor = g.governor,
                                   !.cooldown = g.cooldown, !.scanned = TRUE]
       IN  /\ g.allowed
           /\ \/ \* the scan raises (anything but a BinanceAPIException)
                 /\ w.read_faults
                 /\ stats' = g.stats
                 /\ ev' = [seen EXCEPT !.ret = "raise",
                                       !.sleeps = pause \o <<ErrorSleep>>]
                 /\ UNCHANGED <<trader, db, faults>>
              \/ \* no opportunity
                 /\ stats' = g.stats
                 /\ ev' = [seen EXCEPT !.sleeps = pause \o <<SCAN_INTERVAL>>]
                 /\ UNCHANGED <<trader, db, faults>>
              \/ \* an opportunity: enter_trade, then update_stats on success
                 /\ Len(db.trades) < w.max_trades
                 /\ \E opportunity \in Opportunities(w), balance \in w.balances,
                       precision \in w.precisions, q_raised \in w.quantity_faults :
                       LET buys == enter_trade(trader, db, today, opportunity, balance,
                                               precision, q_raised, None, "none").buy
                                       # "none"
                       IN  \E order \in (IF buys THEN Orders(w.buy_fills) ELSE {None}) :
                           \E fault \in WriteFaults(w, order, w.entry_faults) :
                              \E r \in {enter_trade(trader, db, today, opportunity,
                                                    balance, precision, q_raised,
                                                    order, fault)} :
                              \E dt \in (IF has_open_position(r.trader) THEN 0..1
                                          ELSE {0}) :
                                  /\ trader' = Elapse(r.trader, dt)
                                  /\ db' = r.db
                                  /\ faults' = Faulted(fault)
                                  /\ stats' = IF r.ret = "True"
                                              THEN update_stats(g.stats, r.db, today)
                                              ELSE g.stats
                                  /\ ev' = [seen EXCEPT
                                               !.ret = r.ret, !.buy = r.buy,
                                               !.sized = Some(Sizing(
                                                   opportunity, balance,
                                                   precision, q_raised)),
                                               !.opportunity = Some(opportunity),
                                               !.sleeps = pause \o
                                                   (IF r.ret = "raise"
                                                    THEN <<ErrorSleep>>
                                                    ELSE <<SCAN_INTERVAL>>)]
    /\ UNCHANGED <<scanner, clock, config, pc, running, today>>

\* main.py 41-46 after exit_trade was called on the fields t: "Shutdown
\* complete" and sys.exit(0), unless exit_trade raised
ShutdownExited(x, t) ==
    [trader |-> x.trader, db |-> x.db, ret |-> x.ret, sell |-> x.sell,
     at_exit |-> Some(t),
     exit_code |-> IF x.ret = "raise" THEN None ELSE Some(0)]

\* A handler that ends the process without the final exit.
shutdown_leaving(t, d, date, order, fault) ==
    [trader |-> t, db |-> d, ret |-> "none", sell |-> "none",
     at_exit |-> None, exit_code |-> Some(0)]

\* ApexTrader.shutdown (main.py 35-46), the SIGINT/SIGTERM handler, on the
\* Trader's fields t and the tables d
shutdown(t, d, date, order, fault) ==
    IF has_open_position(t)
    THEN ShutdownExited(exit_trade(t, d, date, "SHUTDOWN", order, fault), t)
    ELSE [trader |-> t, db |-> d, ret |-> "none", sell |-> "none",
          at_exit |-> None, exit_code |-> Some(0)]

\* The signal arrives between two operations of the loop.  When exit_trade
\* raises, the exception leaves the handler into the loop's try, is caught at
\* 182-185, and the loop ends because running is False.
Shutdown(w) ==
    /\ pc = "loop" /\ running
    /\ running' = FALSE
    /\ \E order \in (IF has_open_position(trader) THEN Orders(w.sell_fills)
                     ELSE {None}) :
       \E fault \in WriteFaults(w, order, w.exit_faults) :
          \E r \in {shutdown(trader, db, today, order, fault)} :
              /\ trader' = r.trader
              /\ db' = r.db
              /\ faults' = Faulted(fault)
              /\ pc' = IF r.ret = "raise" THEN "stopped" ELSE "exited"
              /\ ev' = [NoEvent EXCEPT
                           !.op = "shutdown", !.ret = r.ret, !.sell = r.sell,
                           !.reason = IF has_open_position(trader)
                                      THEN Some("SHUTDOWN") ELSE None,
                           !.at_exit = r.at_exit,
                           !.exit_code = r.exit_code,
                           !.sleeps = IF r.ret = "raise" THEN <<ErrorSleep>> ELSE <<>>]
    /\ UNCHANGED <<scanner, clock, config, today, stats>>

\* the calendar date changes
Midnight(w) ==
    /\ pc = "loop"
    /\ today < w.max_day
    /\ today' = today + 1
    /\ ev' = [NoEvent EXCEPT !.op = "midnight"]
    /\ UNCHANGED <<scanner, clock, config, pc, running, trader, db, stats, faults>>

\* Another process with the SQLite file open deletes the row of the position
\* the Trader holds.
RowDeleted(w) ==
    /\ pc = "loop" /\ running
    /\ has_open_position(trader)
    /\ faults < w.max_faults
    /\ The(trader.current_position).trade_id \in RowIds(db.trades)
    /\ db' = [db EXCEPT !.trades[The(trader.current_position).trade_id].status =
                            "DELETED"]
    /\ faults' = faults + 1
    /\ ev' = [NoEvent EXCEPT !.op = "row_deleted"]
    /\ UNCHANGED <<scanner, clock, config, pc, running, today, trader, stats>>

\* The world of Spec: every kind of order and price outcome, on a small
\* grid, with a ledger that does not fail.  Prices are around an entry at
\* 1000: 980 is the 2% floor of the stop, 1005 a small gain, 1020 a gain that
\* arms the trailing stop, 1030 the take profit of a 1% volatility.  A
\* balance of 20 buys a quantity that rounds to 0.
World ==
    [symbols |-> {"BTCUSDT"}, opp_prices |-> {1000}, buy_fills |-> {1000},
     vols |-> {100}, hist_lens |-> {ScanHistory},
     balances |-> {0, 20, 1000}, precisions |-> {0},
     quantity_faults |-> BOOLEAN,
     tick_prices |-> {980, 1005, 1020, 1030}, sell_fills |-> {980, 1020},
     exit_faults |-> {"none"}, entry_faults |-> {"none"}, read_faults |-> TRUE,
     max_trades |-> MaxTrades, max_day |-> MaxDay, max_faults |-> 0]

Next ==
    \/ MonitorTick(World)
    \/ GovernorBlocks
    \/ GovernorReadFails(World)
    \/ ScanCycle(World)
    \/ Shutdown(World)
    \/ Midnight(World)

Spec == Init /\ [][Next]_vars

\* The world of SpecFaults: ledger writes may raise (a locked or broken
\* SQLite file) and rows may be deleted, at most MaxLedgerFaults times in
\* all, on a narrower price grid.
FaultWorld ==
    [World EXCEPT !.balances = {1000}, !.quantity_faults = {FALSE},
                  !.tick_prices = {980, 1020}, !.sell_fills = {980},
                  !.exit_faults = {"none", "before_update", "after_update"},
                  !.entry_faults = {"none", "insert"},
                  !.read_faults = FALSE, !.max_faults = MaxLedgerFaults]

NextFaults ==
    \/ MonitorTick(FaultWorld)
    \/ GovernorBlocks
    \/ ScanCycle(FaultWorld)
    \/ Shutdown(FaultWorld)
    \/ Midnight(FaultWorld)
    \/ RowDeleted(FaultWorld)

SpecFaults == Init /\ [][NextFaults]_vars

\* The world of SpecLosses: every trade is stopped out, at a loss of 0.5% or
\* at a gain of 2%, under a configuration that allows more trades a day than
\* the run makes.
LossWorld ==
    [World EXCEPT !.balances = {1000}, !.quantity_faults = {FALSE},
                  !.tick_prices = {980, 1005}, !.sell_fills = {995, 1020},
                  !.read_faults = FALSE, !.max_trades = LossMaxTrades,
                  !.max_day = 0]

InitLosses == InitWith(Configs({LossMaxTrades + 1}))

NextLosses ==
    \/ MonitorTick(LossWorld)
    \/ ScanCycle(LossWorld)
    \/ Shutdown(LossWorld)

SpecLosses == InitLosses /\ [][NextLosses]_vars

\* ------------------------------------------------- the Trader called directly
\* Trader's public methods called in any order by any client, as a test or
\* another caller would: nothing but the loop's own branch keeps a caller
\* from calling enter_trade with a position open.
CallEnterTrade(w) ==
    /\ Len(db.trades) < w.max_trades
    /\ \E opportunity \in Opportunities(w), balance \in w.balances,
          precision \in w.precisions, q_raised \in w.quantity_faults :
          LET buys == enter_trade(trader, db, today, opportunity, balance,
                                  precision, q_raised, None, "none").buy # "none"
          IN  \E order \in (IF buys THEN Orders(w.buy_fills) ELSE {None}) :
              \E r \in {enter_trade(trader, db, today, opportunity, balance,
                                    precision, q_raised, order, "none")} :
                  /\ trader' = r.trader
                  /\ db' = r.db
                  /\ ev' = [NoEvent EXCEPT !.op = "enter_trade", !.ret = r.ret,
                                           !.buy = r.buy,
                                           !.sized = Some(Sizing(
                                               opportunity, balance, precision,
                                               q_raised)),
                                           !.opportunity = Some(opportunity)]
    /\ UNCHANGED <<scanner, clock, config, pc, running, today, stats, faults>>

CallMonitorPosition(w) ==
    /\ \E price \in Orders(w.tick_prices) :
          LET sells == monitor_position(trader, db, today, price, None, "none").sell
                           # "none"
          IN  \E order \in (IF sells THEN Orders(w.sell_fills) ELSE {None}) :
              \E r \in {monitor_position(trader, db, today, price, order, "none")} :
              \E dt \in (IF has_open_position(r.trader) THEN 0..1 ELSE {0}) :
                  /\ trader' = Elapse(r.trader, dt)
                  /\ db' = r.db
                  /\ ev' = [NoEvent EXCEPT !.op = "monitor_position", !.ret = r.ret,
                                           !.sell = r.sell, !.reason = r.reason,
                                           !.at_exit = r.at_exit,
                                           !.ticked = ~IsNone(trader.current_position),
                                           !.price = IF IsNone(trader.current_position)
                                                     THEN None ELSE price]
    /\ UNCHANGED <<scanner, clock, config, pc, running, today, stats, faults>>

CallExitTrade(w) ==
    /\ \E order \in Orders(w.sell_fills), reason \in {"MANUAL"} :
       \E r \in {exit_trade(trader, db, today, reason, order, "none")} :
          /\ trader' = r.trader
          /\ db' = r.db
          /\ ev' = [NoEvent EXCEPT !.op = "exit_trade", !.ret = r.ret,
                                   !.sell = r.sell,
                                   !.reason = IF r.sell = "none" THEN None
                                              ELSE Some(reason),
                                   !.at_exit = IF r.sell = "none" THEN None
                                               ELSE Some(trader)]
    /\ UNCHANGED <<scanner, clock, config, pc, running, today, stats, faults>>

\* The grid of SpecTrader: two volatilities, so that a second entry can be
\* told from the first by its targets.
TraderWorld ==
    [World EXCEPT !.vols = {0, 100}, !.balances = {0, 1000},
                  !.quantity_faults = {FALSE}]

NextTrader ==
    \/ CallEnterTrade(TraderWorld)
    \/ CallMonitorPosition(TraderWorld)
    \/ CallExitTrade(TraderWorld)

SpecTrader == Init /\ [][NextTrader]_vars

\* The grid of SpecTargets: enter_trade called with entry prices from 0.1 to
\* 5000 dollars, histories shorter and longer than MinHistory, and
\* volatilities from 0 to 10%: 0.1% puts entry - 2 ATR above the 0.3% bound,
\* 1% on the 2% bound, 0.5% between the two, 2% and 10% below the 2% bound.
\* The volatilities are multiples of 0.1%, where Price * Volatility is exact
\* on the grid of the levels.
TargetsWorld ==
    [World EXCEPT !.buy_fills = {1, 337, 1000, 50000},
                  !.vols = {0, 10, 50, 100, 200, 1000},
                  !.hist_lens = {0, MinHistory - 1, MinHistory, ScanHistory},
                  !.balances = {1000}, !.quantity_faults = {FALSE},
                  !.sell_fills = {1020}, !.max_trades = 1]

NextTargets ==
    \/ CallEnterTrade(TargetsWorld)
    \/ CallExitTrade(TargetsWorld)

SpecTargets == Init /\ [][NextTargets]_vars

\* ------------------------------------------- the signal inside an operation
\* Python runs the handler in the main thread, between two bytecodes of
\* whatever the loop is executing.  The handler runs to its end; sys.exit(0)
\* then unwinds the interrupted operation, which never resumes.

\* exit_trade interrupted after its sell filled: at "sold" before
\* log_trade_exit is called (trader.py 349), at "logged" after it returned and
\* before the position is cleared (trader.py 363)
ExitInterrupted(t, d, date, reason, order, point) ==
    [trader |-> t,
     db |-> IF point = "logged"
            THEN log_trade_exit(d, date, The(t.current_position).trade_id,
                                The(order), reason, "none").db
            ELSE d]

\* enter_trade interrupted after its buy filled: at "filled" before the risk
\* state is set (trader.py 219), at "targets" before log_trade_entry (233), at
\* "logged" before the position is stored (243).  done is enter_trade run to
\* its end, cut is enter_trade stopped by the ledger at 233.
EnterInterrupted(t, d, done, cut, point) ==
    [trader |-> IF point = "filled" THEN t ELSE cut.trader,
     db |-> IF point = "logged" THEN done.db ELSE d]

\* the handler's run inside an operation, seen by the loop
Interrupted(r, during, sold_before) ==
    [NoEvent EXCEPT !.op = "shutdown", !.ret = r.ret, !.sell = r.sell,
                    !.reason = IF r.sell = "none" THEN None ELSE Some("SHUTDOWN"),
                    !.at_exit = r.at_exit, !.exit_code = r.exit_code,
                    !.during = during, !.sold_before = sold_before,
                    !.sleeps = IF r.ret = "raise" THEN <<ErrorSleep>> ELSE <<>>]

\* The signal arrives inside monitor_position, after the tick fetched the
\* price and updated the high-water mark and the trailing flag, or after the
\* fetch failed, and before any sell order.
ShutdownInMonitor(w) ==
    /\ pc = "loop" /\ running
    /\ has_open_position(trader)
    /\ running' = FALSE
    /\ \E price \in Orders(w.tick_prices) :
       \E mid \in {monitor_position(trader, db, today, price, None, "none")} :
       \E order \in Orders(w.sell_fills) :
       \E fault \in WriteFaults(w, order, w.exit_faults) :
       \E r \in {shutdown(mid.trader, db, today, order, fault)} :
           /\ trader' = r.trader
           /\ db' = r.db
           /\ faults' = Faulted(fault)
           /\ pc' = IF r.ret = "raise" THEN "stopped" ELSE "exited"
           /\ ev' = Interrupted(r, "monitor_position", FALSE)
    /\ UNCHANGED <<scanner, clock, config, today, stats>>

\* The signal arrives inside the exit_trade a tick called, after its sell
\* order filled.
ShutdownInExit(w) ==
    /\ pc = "loop" /\ running
    /\ has_open_position(trader)
    /\ running' = FALSE
    /\ \E price \in Orders(w.tick_prices) :
       \E tick \in {monitor_position(trader, db, today, price, None, "none")} :
           /\ tick.sell # "none"
           /\ \E sold \in Orders(w.sell_fills) \ {None}, point \in {"sold", "logged"} :
              \E mid \in {ExitInterrupted(The(tick.at_exit), db, today,
                                          The(tick.reason), sold, point)} :
              \E order \in Orders(w.sell_fills) :
              \E fault \in WriteFaults(w, order, w.exit_faults) :
              \E r \in {shutdown(mid.trader, mid.db, today, order, fault)} :
                  /\ trader' = r.trader
                  /\ db' = r.db
                  /\ faults' = Faulted(fault)
                  /\ pc' = IF r.ret = "raise" THEN "stopped" ELSE "exited"
                  /\ ev' = Interrupted(r, "exit_trade", TRUE)
    /\ UNCHANGED <<scanner, clock, config, today, stats>>

\* The signal arrives inside the enter_trade the loop called after a scan,
\* after its buy order filled.
ShutdownInEnter(w) ==
    /\ pc = "loop" /\ running
    /\ ~has_open_position(trader)
    /\ Len(db.trades) < w.max_trades
    /\ running' = FALSE
    /\ \E g \in {check_daily_limits(config, stats,
                                    get_daily_stats(db.performance, today))} :
       /\ g.allowed
       /\ stats' = g.stats
       /\ \E opportunity \in Opportunities(w), balance \in w.balances,
             precision \in w.precisions, bought \in Orders(w.buy_fills) \ {None},
             point \in {"filled", "targets", "logged"} :
          \E done \in {enter_trade(trader, db, today, opportunity, balance,
                                   precision, FALSE, bought, "none")} :
          \E cut \in {enter_trade(trader, db, today, opportunity, balance,
                                  precision, FALSE, bought, "insert")} :
              /\ done.buy = "filled"
              /\ \E mid \in {EnterInterrupted(trader, db, done, cut, point)} :
                 \E r \in {shutdown(mid.trader, mid.db, today, None, "none")} :
                     /\ trader' = r.trader
                     /\ db' = r.db
                     /\ pc' = "exited"
                     /\ ev' = [Interrupted(r, "enter_trade", FALSE) EXCEPT
                                  !.buy = "filled", !.scanned = TRUE,
                                  !.governor = g.governor,
                                  !.cooldown = g.cooldown]
    /\ UNCHANGED <<scanner, clock, config, today, faults>>

\* The world of SpecSignal: the loop on a narrow grid, with the signal
\* arriving between operations or inside one.
SignalWorld ==
    [World EXCEPT !.balances = {1000}, !.quantity_faults = {FALSE},
                  !.tick_prices = {980, 1020}, !.read_faults = FALSE,
                  !.max_day = 0]

NextSignal ==
    \/ MonitorTick(SignalWorld)
    \/ GovernorBlocks
    \/ ScanCycle(SignalWorld)
    \/ Shutdown(SignalWorld)
    \/ ShutdownInMonitor(SignalWorld)
    \/ ShutdownInExit(SignalWorld)
    \/ ShutdownInEnter(SignalWorld)

SpecSignal == Init /\ [][NextSignal]_vars

\* ------------------------------------------------------------------ startup
\* config.py 45-49: the selection weights, in thousandths
VOLATILITY_WEIGHT == 300
VOLUME_WEIGHT == 250
MOMENTUM_WEIGHT == 250
TECHNICAL_WEIGHT == 150
RISK_WEIGHT == 50

\* config.py 39, in points of the 0-10 scale
MIN_SCORE_TO_TRADE == 7

\* config.py 112: the tolerance on the sum of the weights, in thousandths
WeightTolerance == 10

DefaultWeights ==
    [volatility |-> VOLATILITY_WEIGHT, volume |-> VOLUME_WEIGHT,
     momentum |-> MOMENTUM_WEIGHT, technical |-> TECHNICAL_WEIGHT,
     risk |-> RISK_WEIGHT]

\* Everything config.py reads from the environment that validate_config and
\* the scanner look at, with the risk limits of the loop.  Percentages are
\* in basis points, the capital fraction in percent, weights in thousandths.
RunConfig(weights, tp, sl, capital, dry_run, credentials) ==
    [MAX_TRADES_PER_DAY |-> 1,
     MAX_DAILY_LOSS_PERCENT |-> MAX_DAILY_LOSS_PERCENT,
     MAX_CONSECUTIVE_LOSSES |-> MAX_CONSECUTIVE_LOSSES,
     weights |-> weights,
     TAKE_PROFIT_PERCENT |-> tp, STOP_LOSS_PERCENT |-> sl,
     CAPITAL_PER_TRADE |-> capital,
     DRY_RUN |-> dry_run, credentials |-> credentials,
     MIN_SCORE_TO_TRADE |-> MIN_SCORE_TO_TRADE]

\* config.py 110-111
WeightsSum(weights) ==
    weights.volatility + weights.volume + weights.momentum
        + weights.technical + weights.risk

Abs(x) == IF x < 0 THEN -x ELSE x

\* config.py 112: abs(weights_sum - 1.0) > 0.01 on binary floats.  A sum
\* whose decimal value is farther from 1 than the tolerance is rejected and
\* a nearer one is accepted; at a decimal distance of exactly 0.01 the
\* rounding of the five floats and of their sum decides, and rounds_out says
\* that it left the distance above the float 0.01 (0.2 + 0.2 + 0.2 + 0.2 +
\* 0.19 gives 0.99 and a distance of 0.010000000000000009) and not below it
\* (0.29 + 0.25 + 0.25 + 0.15 + 0.05 gives 0.9900000000000001).
WeightsRejected(weights, rounds_out) ==
    \/ Abs(WeightsSum(weights) - 1000) > WeightTolerance
    \/ Abs(WeightsSum(weights) - 1000) = WeightTolerance /\ rounds_out

\* config.py 92-113: the errors validate_config collects
ConfigErrors(cfg, rounds_out) ==
    (IF ~cfg.credentials /\ ~cfg.DRY_RUN THEN {"credentials"} ELSE {})
    \cup (IF cfg.TAKE_PROFIT_PERCENT <= 0 THEN {"take_profit"} ELSE {})
    \cup (IF cfg.STOP_LOSS_PERCENT <= 0 THEN {"stop_loss"} ELSE {})
    \cup (IF cfg.STOP_LOSS_PERCENT >= cfg.TAKE_PROFIT_PERCENT
          THEN {"stop_above_target"} ELSE {})
    \cup (IF cfg.CAPITAL_PER_TRADE <= 0 \/ cfg.CAPITAL_PER_TRADE > 100
          THEN {"capital"} ELSE {})
    \cup (IF WeightsRejected(cfg.weights, rounds_out) THEN {"weights"} ELSE {})

\* A validation that does not compare the stop loss with the take profit.
validate_config_unordered(cfg, rounds_out) ==
    ConfigErrors(cfg, rounds_out) \ {"stop_above_target"} = {}

\* config.validate_config (config.py 90-118): TRUE when it returns True,
\* FALSE when it raises ValueError
validate_config(cfg, rounds_out) == ConfigErrors(cfg, rounds_out) = {}

\* Tables of weights whose sum is 0.98, 0.989, 0.99, 0.991, 1, 1.009, 1.01,
\* 1.011 and 1.02.
WeightTables ==
    {[DefaultWeights EXCEPT !.risk = r] : r \in {30, 39, 40, 41, 50, 59, 60, 61, 70}}

\* The configurations a run may be started with: the defaults with one
\* group of parameters changed, and two with several errors at once.
StartupConfigs ==
    {RunConfig(w, TAKE_PROFIT_PERCENT_BP, STOP_LOSS_PERCENT_BP,
               CAPITAL_PER_TRADE_PCT, TRUE, FALSE) : w \in WeightTables}
    \cup {RunConfig(DefaultWeights, l[1], l[2], CAPITAL_PER_TRADE_PCT, TRUE, FALSE) :
             l \in {<<30, 30>>, <<30, 50>>, <<50, 0>>, <<0, -10>>}}
    \cup {RunConfig(DefaultWeights, TAKE_PROFIT_PERCENT_BP, STOP_LOSS_PERCENT_BP,
                    c, TRUE, FALSE) : c \in {-10, 0, 101}}
    \cup {RunConfig(DefaultWeights, TAKE_PROFIT_PERCENT_BP, STOP_LOSS_PERCENT_BP,
                    CAPITAL_PER_TRADE_PCT, d, k) : d \in BOOLEAN, k \in BOOLEAN}
    \cup {RunConfig([DefaultWeights EXCEPT !.risk = 70], 30, 50, 0, FALSE, FALSE),
          RunConfig([DefaultWeights EXCEPT !.risk = 40], 30, 50,
                    CAPITAL_PER_TRADE_PCT, TRUE, FALSE)}

\* ApexTrader.__init__, before run is called
InitStartup ==
    /\ config \in StartupConfigs
    /\ pc = "start"
    /\ running = FALSE
    /\ today = 0
    /\ trader = InitTrader
    /\ db = InitDb
    /\ stats = [trades_today |-> 0, consecutive_losses |-> 0, daily_pnl |-> 0]
    /\ faults = 0
    /\ ev = NoEvent
    /\ scanner = NewScanner
    /\ clock = 0

\* main.py 112-130: run validates the configuration and returns when it
\* raises, else sets running and enters the loop
Run ==
    /\ pc = "start"
    /\ \E rounds_out \in BOOLEAN :
          IF validate_config(config, rounds_out)
          THEN /\ pc' = "loop"
               /\ running' = TRUE
               /\ ev' = [NoEvent EXCEPT !.op = "run", !.ret = "True"]
          ELSE /\ pc' = "returned"
               /\ running' = FALSE
               /\ ev' = [NoEvent EXCEPT !.op = "run", !.ret = "config_error"]
    /\ UNCHANGED <<scanner, clock, config, today, trader, db, stats, faults>>

\* The world of SpecStartup: one trade on one day.
StartupWorld ==
    [World EXCEPT !.balances = {1000}, !.quantity_faults = {FALSE},
                  !.tick_prices = {980, 1030}, !.sell_fills = {1020},
                  !.read_faults = FALSE, !.max_trades = 1, !.max_day = 0]

NextStartup ==
    \/ Run
    \/ MonitorTick(StartupWorld)
    \/ GovernorBlocks
    \/ ScanCycle(StartupWorld)
    \/ Shutdown(StartupWorld)

SpecStartup == InitStartup /\ [][NextStartup]_vars

\* ------------------------------------------------------------------ scanner
\* Scores are in hundredths of a point of the 0-10 scale, volatilities and
\* momenta in basis points, volumes in millions of USDT.

\* CoinScanner.calculate_volatility_score (scanner.py 113-136), for the 60
\* prices and more that scan_coin passes
calculate_volatility_score(volatility) ==
    IF volatility >= 300 THEN 1000
    ELSE IF volatility >= 200 THEN 800
    ELSE IF volatility >= 100 THEN 600
    ELSE IF volatility >= 50 THEN 400
    ELSE 200

\* CoinScanner.calculate_volume_score (scanner.py 138-163), for the stats
\* scan_coin passes, which are not empty
calculate_volume_score(quote_volume) ==
    IF quote_volume >= 100 THEN 1000
    ELSE IF quote_volume >= 50 THEN 800
    ELSE IF quote_volume >= 10 THEN 600
    ELSE IF quote_volume >= 1 THEN 400
    ELSE 200

\* CoinScanner.calculate_momentum_score (scanner.py 165-191) on the number
\* of positive momenta, their count and their average
calculate_momentum_score(positive_count, total_count, avg_momentum) ==
    IF positive_count = total_count /\ avg_momentum > 100 THEN 1000
    ELSE IF positive_count = total_count THEN 800
    ELSE IF 2 * positive_count >= total_count THEN 600
    ELSE IF avg_momentum < -100 THEN 300
    ELSE 400

\* Indicators.get_technical_score (indicators.py 230-270) on the signals:
\* the five indicator scores and their weighted average
RsiScore(rsi) ==
    IF rsi < 30 THEN 9 ELSE IF rsi < 40 THEN 7
    ELSE IF rsi > 70 THEN 2 ELSE IF rsi > 60 THEN 4 ELSE 5

StochScore(k, d) ==
    IF k < 20 /\ k > d THEN 10 ELSE IF k < 20 THEN 8 ELSE IF k > 80 THEN 2 ELSE 5

MacdScore(crossover, histogram) ==
    IF crossover THEN 10 ELSE IF histogram > 0 THEN 7
    ELSE IF histogram < 0 THEN 3 ELSE 5

BbScore(position) ==
    IF position < 10 THEN 10 ELSE IF position < 30 THEN 8
    ELSE IF position > 90 THEN 2 ELSE 5

TrendScore(trend, above_ema50) ==
    IF trend = "BULLISH" /\ above_ema50 THEN 8
    ELSE IF trend = "BEARISH" THEN 3 ELSE 5

get_technical_score(signals) ==
    RsiScore(signals.rsi) * 20
        + StochScore(signals.stoch_k, signals.stoch_d) * 20
        + MacdScore(signals.macd_bullish, signals.macd_histogram) * 25
        + BbScore(signals.bb_position) * 15
        + TrendScore(signals.trend, signals.above_ema50) * 20

\* CoinScanner.calculate_risk_score (scanner.py 198-220)
calculate_risk_score(symbol, quote_volume) ==
    Min(5 + (IF quote_volume >= 50 THEN 3
             ELSE IF quote_volume >= 10 THEN 2
             ELSE IF quote_volume >= 1 THEN 1 ELSE -2)
          + (IF symbol \in {"BTCUSDT", "ETHUSDT", "BNBUSDT", "SOLUSDT",
                            "XRPUSDT", "ADAUSDT"} THEN 2 ELSE 0),
        10) * 100

\* scanner.py 236-241: the five scores of an instrument
Scores(symbol, f) ==
    [volatility |-> calculate_volatility_score(f.volatility60),
     volume |-> calculate_volume_score(f.quote_volume),
     momentum |-> calculate_momentum_score(f.positive_count, f.total_count,
                                           f.avg_momentum),
     technical |-> get_technical_score(f.signals),
     risk |-> calculate_risk_score(symbol, f.quote_volume)]

\* scanner.py 244-250: the composite, in 1/100000 of a point
FinalScore(scores, weights) ==
    scores.volatility * weights.volatility + scores.volume * weights.volume
        + scores.momentum * weights.momentum
        + scores.technical * weights.technical + scores.risk * weights.risk

\* A scan_coin that catches BinanceAPIException only: any other error
\* leaves it as an exception.
scan_coin_propagating(symbol, feed, weights) ==
    IF feed.history = "other_error" \/ feed.stats = "other_error"
           \/ feed.scoring = "error"
    THEN [raised |-> TRUE, data |-> None]
    ELSE IF feed.history # "ok" \/ feed.stats # "ok"
    THEN [raised |-> FALSE, data |-> None]
    ELSE [raised |-> FALSE,
          data |-> Some([symbol |-> symbol,
                         current_price |-> feed.features.current_price,
                         final_score |-> FinalScore(Scores(symbol, feed.features),
                                                    weights),
                         scores |-> Scores(symbol, feed.features),
                         hist_len |-> ScanHistory,
                         volatility |-> feed.features.volatility])]

\* CoinScanner.scan_coin (scanner.py 222-269).  feed is what the exchange
\* answers for the symbol: history is "ok", "api_error" (get_price_history
\* returns []), "short" (fewer than 60 closes) or "other_error" (any other
\* exception); stats is "ok", "api_error" (get_24h_stats returns {}) or
\* "other_error"; scoring is "error" when an indicator raises.  Every error
\* ends in the except of line 267 and the method returns None.
scan_coin(symbol, feed, weights) ==
    IF feed.history # "ok" \/ feed.stats # "ok" \/ feed.scoring # "ok"
    THEN [raised |-> FALSE, data |-> None]
    ELSE [raised |-> FALSE,
          data |-> Some([symbol |-> symbol,
                         current_price |-> feed.features.current_price,
                         final_score |-> FinalScore(Scores(symbol, feed.features),
                                                    weights),
                         scores |-> Scores(symbol, feed.features),
                         hist_len |-> ScanHistory,
                         volatility |-> feed.features.volatility])]

\* list.sort(key=final_score, reverse=True) is stable: x goes behind the
\* results whose score is at least its own
RECURSIVE InsertByScore(_, _)
InsertByScore(sorted, x) ==
    IF sorted = <<>> THEN <<x>>
    ELSE IF Head(sorted).final_score >= x.final_score
    THEN <<Head(sorted)>> \o InsertByScore(Tail(sorted), x)
    ELSE <<x>> \o sorted

RECURSIVE SortByScore(_)
SortByScore(results) ==
    IF results = <<>> THEN <<>>
    ELSE InsertByScore(SortByScore(SubSeq(results, 1, Len(results) - 1)),
                       results[Len(results)])

\* scanner.py 280-289: the loop over the symbols from the i-th on; fetched
\* lists the symbols scan_coin was called for
RECURSIVE ScanFrom(_, _, _, _, _, _)
ScanFrom(top_coins, i, feeds, weights, results, fetched) ==
    IF i > Len(top_coins)
    THEN [raised |-> FALSE, results |-> results, fetched |-> fetched]
    ELSE IF scan_coin(top_coins[i], feeds[top_coins[i]], weights).raised
    THEN [raised |-> TRUE, results |-> <<>>,
          fetched |-> Append(fetched, top_coins[i])]
    ELSE ScanFrom(top_coins, i + 1, feeds, weights,
                  IF IsNone(scan_coin(top_coins[i], feeds[top_coins[i]], weights).data)
                  THEN results
                  ELSE Append(results,
                              The(scan_coin(top_coins[i], feeds[top_coins[i]],
                                            weights).data)),
                  Append(fetched, top_coins[i]))

\* CoinScanner.get_top_coins (scanner.py 31-56).  universe is what
\* client.get_ticker does: "ok" with the symbols by volume, "api_error" (a
\* BinanceAPIException, caught at line 54) or "other_error" (any other
\* exception of the call, which no clause catches).
get_top_coins(universe) ==
    IF universe.kind = "ok"
    THEN [raised |-> FALSE, symbols |-> universe.symbols]
    ELSE IF universe.kind = "api_error"
    THEN [raised |-> FALSE, symbols |-> <<>>]
    ELSE [raised |-> TRUE, symbols |-> <<>>]

\* scanner.py 280-296, once the symbols are there
ScanSymbols(top_coins, feeds, weights) ==
    [ScanFrom(top_coins, 1, feeds, weights, <<>>, <<>>)
        EXCEPT !.results = SortByScore(@)]

\* CoinScanner.scan_all_coins (scanner.py 271-296)
scan_all_coins(market, weights) ==
    IF get_top_coins(market.universe).raised
    THEN [raised |-> TRUE, results |-> <<>>, fetched |-> <<>>]
    ELSE IF get_top_coins(market.universe).symbols = <<>>
    THEN [raised |-> FALSE, results |-> <<>>, fetched |-> <<>>]
    ELSE ScanSymbols(get_top_coins(market.universe).symbols, market.feeds, weights)

\* A choice of the best result that does not look at the threshold.
BestOf_any(results, min_score) ==
    IF results = <<>> THEN None ELSE Some(results[1])

\* scanner.py 302-313: the top result if it reaches the threshold
BestOf(results, min_score) ==
    IF results = <<>> THEN None
    ELSE IF results[1].final_score < min_score * 100000 THEN None
    ELSE Some(results[1])

\* CoinScanner.get_best_opportunity (scanner.py 298-313)
get_best_opportunity(market, cfg) ==
    [raised |-> scan_all_coins(market, cfg.weights).raised,
     results |-> scan_all_coins(market, cfg.weights).results,
     fetched |-> scan_all_coins(market, cfg.weights).fetched,
     best |-> BestOf(scan_all_coins(market, cfg.weights).results,
                     cfg.MIN_SCORE_TO_TRADE)]

\* What the indicators make of an instrument's closes and 24h statistics:
\* one that scores high on everything, one that scores low on everything
\* and one in between.  volatility60 is calculate_volatility over 60 closes,
\* volatility the one over 20 closes that the targets use.
Hot ==
    [current_price |-> 1000, volatility60 |-> 300, volatility |-> 100,
     quote_volume |-> 100, positive_count |-> 3, total_count |-> 3,
     avg_momentum |-> 150,
     signals |-> [rsi |-> 25, stoch_k |-> 10, stoch_d |-> 5,
                  macd_bullish |-> TRUE, macd_histogram |-> 1,
                  bb_position |-> 5, trend |-> "BULLISH", above_ema50 |-> TRUE]]

Lukewarm ==
    [current_price |-> 1000, volatility60 |-> 100, volatility |-> 100,
     quote_volume |-> 10, positive_count |-> 2, total_count |-> 3,
     avg_momentum |-> 20,
     signals |-> [rsi |-> 50, stoch_k |-> 50, stoch_d |-> 50,
                  macd_bullish |-> FALSE, macd_histogram |-> 0,
                  bb_position |-> 50, trend |-> "NEUTRAL", above_ema50 |-> TRUE]]

Cold ==
    [current_price |-> 1000, volatility60 |-> 10, volatility |-> 100,
     quote_volume |-> 0, positive_count |-> 0, total_count |-> 3,
     avg_momentum |-> -200,
     signals |-> [rsi |-> 80, stoch_k |-> 90, stoch_d |-> 85,
                  macd_bullish |-> FALSE, macd_histogram |-> -1,
                  bb_position |-> 95, trend |-> "BEARISH", above_ema50 |-> FALSE]]

\* What the exchange may answer for one symbol in one scan.
Feeds ==
    {[history |-> "ok", stats |-> "ok", scoring |-> "ok", features |-> f] :
        f \in {Hot, Lukewarm, Cold}}
    \cup {[history |-> h, stats |-> "ok", scoring |-> "ok", features |-> Hot] :
             h \in {"api_error", "short", "other_error"}}
    \cup {[history |-> "ok", stats |-> x, scoring |-> "ok", features |-> Hot] :
             x \in {"api_error", "other_error"}}
    \cup {[history |-> "ok", stats |-> "ok", scoring |-> "error", features |-> Hot]}

ScanSymbolsUniverse == <<"DOGEUSDT", "BTCUSDT">>

\* What the exchange may answer in one scan: the ticker call and, for each
\* symbol, its feed.
Markets ==
    {[universe |-> [kind |-> "ok", symbols |-> ScanSymbolsUniverse],
      feeds |-> [x \in {"DOGEUSDT", "BTCUSDT"} |->
                    IF x = "DOGEUSDT" THEN f1 ELSE f2]] :
        f1 \in Feeds, f2 \in Feeds}
    \cup {[universe |-> [kind |-> k, symbols |-> <<>>],
           feeds |-> [x \in {"DOGEUSDT", "BTCUSDT"} |->
                         [history |-> "ok", stats |-> "ok", scoring |-> "ok",
                          features |-> Hot]]] :
             k \in {"ok", "api_error", "other_error"}}

\* main.py 143-177 with the scanner: the governor allows, the market is
\* scanned, and the best opportunity, if there is one, is entered.
MarketScanCycle(w) ==
    /\ pc = "loop" /\ running
    /\ ~has_open_position(trader)
    /\ \E g \in {check_daily_limits(config, stats,
                                    get_daily_stats(db.performance, today))} :
       \E market \in Markets :
       \E found \in {get_best_opportunity(market, config)} :
       LET pause == IF g.cooldown THEN <<PAUSE_AFTER_LOSSES>> ELSE <<>>
           seen == [NoEvent EXCEPT !.op = "scan", !.governor = g.governor,
                                   !.cooldown = g.cooldown, !.scanned = TRUE,
                                   !.market = Some(market),
                                   !.scan = Some(found)]
       IN  /\ g.allowed
           /\ IF found.raised
              THEN /\ stats' = g.stats
                   /\ ev' = [seen EXCEPT !.ret = "raise",
                                         !.sleeps = pause \o <<ErrorSleep>>]
                   /\ UNCHANGED <<trader, db, faults>>
              ELSE IF IsNone(found.best)
              THEN /\ stats' = g.stats
                   /\ ev' = [seen EXCEPT !.sleeps = pause \o <<SCAN_INTERVAL>>]
                   /\ UNCHANGED <<trader, db, faults>>
              ELSE /\ Len(db.trades) < w.max_trades
                   /\ \E balance \in w.balances, precision \in w.precisions,
                         q_raised \in w.quantity_faults :
                      \E order \in Orders(w.buy_fills) :
                      \E r \in {enter_trade(trader, db, today, The(found.best),
                                            balance, precision, q_raised,
                                            order, "none")} :
                          /\ r.buy # "none" \/ IsNone(order)
                          /\ trader' = r.trader
                          /\ db' = r.db
                          /\ faults' = faults
                          /\ stats' = IF r.ret = "True"
                                      THEN update_stats(g.stats, r.db, today)
                                      ELSE g.stats
                          /\ ev' = [seen EXCEPT
                                       !.ret = r.ret, !.buy = r.buy,
                                       !.sized = Some(Sizing(
                                           The(found.best), balance,
                                           precision, q_raised)),
                                       !.opportunity = found.best,
                                       !.sleeps = pause \o <<SCAN_INTERVAL>>]
    /\ UNCHANGED <<scanner, clock, config, pc, running, today>>

\* Tables of weights validate_config accepts: the defaults, one whose sum
\* is 1.009, and one with a negative weight whose sum is 1.
ScannerWeightTables ==
    {DefaultWeights,
     [volatility |-> 1009, volume |-> 0, momentum |-> 0, technical |-> 0,
      risk |-> 0],
     [volatility |-> -500, volume |-> 1500, momentum |-> 0, technical |-> 0,
      risk |-> 0]}

ScannerConfigs ==
    {RunConfig(weights, TAKE_PROFIT_PERCENT_BP, STOP_LOSS_PERCENT_BP,
               CAPITAL_PER_TRADE_PCT, TRUE, FALSE) : weights \in ScannerWeightTables}

\* The world of SpecScanner: one trade on one day.
ScannerWorld ==
    [World EXCEPT !.balances = {0, 1000}, !.quantity_faults = {FALSE},
                  !.tick_prices = {980, 1030}, !.sell_fills = {1020},
                  !.read_faults = FALSE, !.max_trades = 1, !.max_day = 0]

InitScanner == InitWith(ScannerConfigs)

NextScanner ==
    \/ MarketScanCycle(ScannerWorld)
    \/ MonitorTick(ScannerWorld)
    \/ GovernorBlocks
    \/ Shutdown(ScannerWorld)

SpecScanner == InitScanner /\ [][NextScanner]_vars

\* ------------------------------------------------ the ledger, statement by statement
\* Database.log_trade_exit seen by another connection to the SQLite file (the
\* dashboard of web_api.py).  SQLite publishes a connection's writes at its
\* commit, all at once, and a reader on another connection gets the
\* committed rows.

\* A log_trade_exit that sets the status in one committed UPDATE and the exit
\* fields in a second one.
ExitWrites_twocommits(row, exit_price, exit_reason, now) ==
    <<[row EXCEPT !.status = "CLOSED"], ClosedRow(row, exit_price, exit_reason, now)>>

\* database.py 138-159: the row as each commit of log_trade_exit leaves it.
\* There is one UPDATE, of all the exit fields, and one commit.
ExitWrites(row, exit_price, exit_reason, now) ==
    <<ClosedRow(row, exit_price, exit_reason, now)>>

\* how many of the commits the row cur has behind it
WritesDone(cur, writes) ==
    IF \E k \in 1..Len(writes) : writes[k] = cur
    THEN SetMax({k \in 1..Len(writes) : writes[k] = cur})
    ELSE 0

\* the commits of the log_trade_exit in progress, from the row as it is now
PendingWrites ==
    ExitWrites(db.trades[The(trader.current_position).trade_id],
               The(ev.exit_price), The(ev.reason), today)

\* The loop enters a trade while it holds none.
LedgerEnter(w) ==
    /\ pc = "loop"
    /\ ~has_open_position(trader)
    /\ CallEnterTrade(w)

\* Trader.exit_trade up to its call of log_trade_exit (trader.py 324-349):
\* the sell order filled at exit_price.
LedgerExitSell(w) ==
    /\ pc = "loop"
    /\ has_open_position(trader)
    /\ \E fill \in w.sell_fills, reason \in {"MANUAL", "TAKE_PROFIT"} :
          ev' = [NoEvent EXCEPT !.op = "exit_trade", !.sell = "filled",
                                !.reason = Some(reason),
                                !.exit_price = Some(fill),
                                !.at_exit = Some(trader)]
    /\ pc' = "exit_select"
    /\ UNCHANGED <<scanner, clock, config, running, today, trader, db, stats, faults>>

\* database.py 113-136: the connection selects the row by id and computes
\* the profit and the duration.  The row is there: nothing deletes rows here.
LedgerExitSelect ==
    /\ pc = "exit_select"
    /\ The(trader.current_position).trade_id \in RowIds(db.trades)
    /\ pc' = "exit_update"
    /\ UNCHANGED <<scanner, clock, config, running, today, trader, db, stats, faults, ev>>

\* database.py 138-157: cursor.execute runs the UPDATE inside the
\* connection's transaction; the file's committed rows are as before.
LedgerExitUpdate ==
    /\ pc = "exit_update"
    /\ pc' = "exit_commit"
    /\ UNCHANGED <<scanner, clock, config, running, today, trader, db, stats, faults, ev>>

\* database.py 159: conn.commit() publishes the UPDATE
LedgerExitCommit ==
    /\ pc = "exit_commit"
    /\ \E writes \in {PendingWrites} :
       \E done \in {WritesDone(db.trades[The(trader.current_position).trade_id],
                               writes)} :
          /\ done < Len(writes)
          /\ db' = [db EXCEPT !.trades[The(trader.current_position).trade_id] =
                                  writes[done + 1]]
          /\ pc' = IF done + 1 < Len(writes) THEN "exit_update"
                    ELSE "exit_performance"
    /\ UNCHANGED <<scanner, clock, config, running, today, trader, stats, faults, ev>>

\* database.py 163-164 and trader.py 351-368: update_daily_performance, then
\* exit_trade clears the position and returns True.
LedgerExitReturn ==
    /\ pc = "exit_performance"
    /\ \E r \in {ExitLogged(trader,
                            [db |-> [db EXCEPT
                                        !.performance = update_daily_performance(
                                            db.trades, db.performance, today)],
                             raised |-> FALSE])} :
          /\ trader' = r.trader
          /\ db' = r.db
          /\ ev' = [ev EXCEPT !.ret = r.ret]
    /\ pc' = "loop"
    /\ UNCHANGED <<scanner, clock, config, running, today, stats, faults>>

\* The dashboard calls get_recent_trades on its own connection, at any
\* moment of the loop's process (web_api.py 97-101).
LedgerRead ==
    /\ ev' = [ev EXCEPT !.read = Some(get_recent_trades(db.trades))]
    /\ UNCHANGED <<scanner, clock, config, pc, running, today, trader, db, stats, faults>>

\* The world of SpecLedger: two entry fills and two exit fills.
LedgerWorld ==
    [World EXCEPT !.buy_fills = {1000, 990}, !.balances = {1000},
                  !.quantity_faults = {FALSE}, !.sell_fills = {980, 1020}]

NextLedger ==
    \/ LedgerEnter(LedgerWorld)
    \/ LedgerExitSell(LedgerWorld)
    \/ LedgerExitSelect
    \/ LedgerExitUpdate
    \/ LedgerExitCommit
    \/ LedgerExitReturn
    \/ LedgerRead

SpecLedger == Init /\ [][NextLedger]_vars

\* ------------------------------------------------- the system-state store
\* A Python value is its type and its content, written out.  A JSON text is
\* its kind (literal, number, string, null, array) and the same content.
PyValue(type, v) == [type |-> type, v |-> v]

\* the values a caller stores: flags, counters, markers, nothing, and the
\* three collections of a pair of numbers
PyValues ==
    {PyValue("bool", "true"), PyValue("int", "1"), PyValue("str", "x"),
     PyValue("NoneType", "null"), PyValue("list", "1, 2"),
     PyValue("tuple", "1, 2"), PyValue("set", "1, 2")}

\* json.dumps: lists and tuples are both written as arrays; a set is not
\* serializable (TypeError, None here).
json_dumps(value) ==
    IF value.type = "set" THEN None
    ELSE Some([kind |-> CASE value.type = "bool" -> "literal"
                          [] value.type = "int" -> "number"
                          [] value.type = "str" -> "string"
                          [] value.type = "NoneType" -> "null"
                          [] value.type \in {"list", "tuple"} -> "array",
               v |-> value.v])

\* json.loads: an array is read as a list
json_loads(text) ==
    PyValue(CASE text.kind = "literal" -> "bool"
              [] text.kind = "number" -> "int"
              [] text.kind = "string" -> "str"
              [] text.kind = "null" -> "NoneType"
              [] text.kind = "array" -> "list",
            text.v)

\* INSERT OR REPLACE INTO system_state, key being the PRIMARY KEY
ReplaceState(table, key, text) ==
    {r \in table : r.key # key} \cup {[key |-> key, value |-> text]}

\* Database.set_state: json.dumps is evaluated before the INSERT runs, so
\* nothing is written when it raises.
set_state(d, key, value) ==
    IF IsNone(json_dumps(value))
    THEN [db |-> d, raised |-> TRUE]
    ELSE [db |-> [d EXCEPT !.system_state =
                               ReplaceState(@, key, The(json_dumps(value)))],
          raised |-> FALSE]

\* Database.get_state
get_state(d, key, default) ==
    IF \E r \in d.system_state : r.key = key
    THEN json_loads((CHOOSE r \in d.system_state : r.key = key).value)
    ELSE default

\* the defaults a caller passes to get_state
Defaults == {PyValue("NoneType", "null"), PyValue("str", "never")}

\* a caller sets a key
SetState ==
    /\ pc = "loop"
    /\ \E key \in StateKeys, value \in PyValues :
       \E r \in {set_state(db, key, value)} :
          /\ db' = r.db
          /\ ev' = [NoEvent EXCEPT
                       !.op = "set_state",
                       !.ret = IF r.raised THEN "raise" ELSE "none",
                       !.state_key = Some(key),
                       !.state_value = Some(value),
                       !.last_set = IF r.raised THEN ev.last_set
                                    ELSE [ev.last_set EXCEPT ![key] = Some(value)]]
    /\ UNCHANGED <<scanner, clock, config, pc, running, today, trader, stats, faults>>

\* a caller reads a key
GetState ==
    /\ pc = "loop"
    /\ \E key \in StateKeys, default \in Defaults :
          ev' = [NoEvent EXCEPT
                    !.op = "get_state",
                    !.state_key = Some(key),
                    !.state_value = Some(default),
                    !.read = Some(get_state(db, key, default)),
                    !.last_set = ev.last_set]
    /\ UNCHANGED <<scanner, clock, config, pc, running, today, trader, db, stats, faults>>

\* The process ends and a new one starts on the same file: init_database
\* creates the tables only if they do not exist (database.py 20-75), the
\* objects in memory are new.
Restart ==
    /\ pc = "loop"
    /\ ev.op # "restart"
    /\ trader' = InitTrader
    /\ ev' = [NoEvent EXCEPT !.op = "restart", !.last_set = ev.last_set]
    /\ UNCHANGED <<scanner, clock, config, pc, running, today, db, stats, faults>>

NextState ==
    \/ SetState
    \/ GetState
    \/ Restart

SpecState == Init /\ [][NextState]_vars

\* ------------------------------------------------------ the price cache
\* the age below which a cached series is served (scanner.py 67)
CacheTtl == 30

\* The series the exchange answers with at the time now: its close prices
\* are those of that moment.
Klines(symbol, interval, limit, now) ==
    [symbol |-> symbol, interval |-> interval, limit |-> limit, as_of |-> now]

\* A get_price_history that serves whatever the cache holds, of any age.
get_price_history_ageless(sc, now, symbol, interval, limit, fetch) ==
    IF ~IsNone(sc.price_cache[cache_key(symbol, interval, limit)])
    THEN [scanner |-> sc, fetch |-> "none", raised |-> FALSE,
          prices |-> <<The(sc.price_cache[cache_key(symbol, interval, limit)]).prices>>]
    ELSE IF fetch = "ok"
    THEN [scanner |-> [sc EXCEPT !.price_cache[cache_key(symbol, interval, limit)] =
                                    Some([time |-> now,
                                          prices |-> Klines(symbol, interval, limit, now)])],
          fetch |-> fetch, raised |-> FALSE,
          prices |-> <<Klines(symbol, interval, limit, now)>>]
    ELSE [scanner |-> sc, fetch |-> fetch, raised |-> fetch = "other_error",
          prices |-> <<>>]

\* CoinScanner.get_price_history at the time now.  fetch is how the call of
\* client.get_klines would end: "ok", "api_error" (BinanceAPIException) or
\* "other_error" (any other exception, which leaves the method).  prices is
\* <<>> for the empty list, else <<the series>>.
get_price_history(sc, now, symbol, interval, limit, fetch) ==
    LET key == cache_key(symbol, interval, limit)
        cached == sc.price_cache[key]
    IN  IF ~IsNone(cached) /\ now - The(cached).time < CacheTtl
        THEN [scanner |-> sc, fetch |-> "none", raised |-> FALSE,
              prices |-> <<The(cached).prices>>]
        ELSE IF fetch = "ok"
        THEN [scanner |-> [sc EXCEPT !.price_cache[key] =
                                        Some([time |-> now,
                                              prices |-> Klines(symbol, interval,
                                                                limit, now)])],
              fetch |-> fetch, raised |-> FALSE,
              prices |-> <<Klines(symbol, interval, limit, now)>>]
        ELSE [scanner |-> sc, fetch |-> fetch, raised |-> fetch = "other_error",
              prices |-> <<>>]

\* the scanner is asked for a price series
GetPriceHistory ==
    /\ \E request \in PriceRequests, fetch \in {"ok", "api_error", "other_error"} :
       \E r \in {get_price_history(scanner, clock, request[1], request[2],
                                    request[3], fetch)} :
          /\ scanner' = r.scanner
          /\ ev' = [NoEvent EXCEPT
                       !.op = "get_price_history",
                       !.ret = IF r.raised THEN "raise" ELSE "none",
                       !.cache_key = Some(cache_key(request[1], request[2],
                                                    request[3])),
                       !.fetch = r.fetch,
                       !.prices = Some(r.prices)]
    /\ UNCHANGED <<clock, config, pc, running, today, trader, db, stats, faults>>

\* time passes: a second, or a second short of the cache's age limit
MaxClock == 31

ClockAdvances ==
    /\ \E d \in {1, CacheTtl - 1} :
          /\ clock + d <= MaxClock
          /\ clock' = clock + d
    /\ ev' = [NoEvent EXCEPT !.op = "clock"]
    /\ UNCHANGED <<scanner, config, pc, running, today, trader, db, stats, faults>>

NextCache ==
    \/ GetPriceHistory
    \/ ClockAdvances

SpecCache == Init /\ [][NextCache]_vars

\* ------------------------------------------------------------ indicators.py
\* Price series are sequences of whole prices.  The RSI is in hundredths of a
\* point.  The moving averages of the MACD are exact: prices are scaled by
\* EmaScale, a power of two large enough for the spans used here.
MaxSeriesLen == 4

PriceSeries == UNION {[1..n -> {1, 2, 3}] : n \in 0..MaxSeriesLen}

\* np.diff over the last period deltas: the sum of the rises and of the falls
RECURSIVE SumGains(_, _, _)
SumGains(prices, from, to) ==
    IF from > to THEN 0
    ELSE Max(prices[from + 1] - prices[from], 0) + SumGains(prices, from + 1, to)

RECURSIVE SumLosses(_, _, _)
SumLosses(prices, from, to) ==
    IF from > to THEN 0
    ELSE Max(prices[from] - prices[from + 1], 0) + SumLosses(prices, from + 1, to)

\* A calculate_rsi that calls a series without any move neutral.
calculate_rsi_flatneutral(prices, period) ==
    IF Len(prices) < period + 1 THEN 5000
    ELSE LET gains == SumGains(prices, Len(prices) - period, Len(prices) - 1)
             losses == SumLosses(prices, Len(prices) - period, Len(prices) - 1)
         IN  IF losses = 0 THEN (IF gains = 0 THEN 5000 ELSE 10000)
             ELSE (10000 * gains) \div (gains + losses)

\* Indicators.calculate_rsi.  100 - 100 / (1 + avg_gain / avg_loss) is
\* 100 * gains / (gains + losses).
calculate_rsi(prices, period) ==
    IF Len(prices) < period + 1 THEN 5000
    ELSE LET gains == SumGains(prices, Len(prices) - period, Len(prices) - 1)
             losses == SumLosses(prices, Len(prices) - period, Len(prices) - 1)
         IN  IF losses = 0 THEN 10000
             ELSE (10000 * gains) \div (gains + losses)

EmaScale == 2 ^ (MaxSeriesLen + 2)

\* pandas ewm(span, adjust=False).mean() at index t: the first value, then
\* (1 - a) * previous + a * value with a = 2 / (span + 1)
RECURSIVE Ewm(_, _, _)
Ewm(xs, span, t) ==
    IF t = 1 THEN xs[1]
    ELSE ((span - 1) * Ewm(xs, span, t - 1) + 2 * xs[t]) \div (span + 1)

\* indicators.py 44-51: the MACD line, the signal line and the histogram
MacdLine(prices, fast, slow) ==
    [t \in 1..Len(prices) |->
        Ewm([i \in 1..Len(prices) |-> prices[i] * EmaScale], fast, t)
          - Ewm([i \in 1..Len(prices) |-> prices[i] * EmaScale], slow, t)]

Histogram(prices, fast, slow, signal) ==
    [t \in 1..Len(prices) |->
        MacdLine(prices, fast, slow)[t] - Ewm(MacdLine(prices, fast, slow), signal, t)]

\* Indicators.calculate_macd under MACD_FAST, MACD_SLOW and MACD_SIGNAL
calculate_macd(prices, fast, slow, signal) ==
    IF Len(prices) < slow
    THEN [macd |-> 0, signal |-> 0, histogram |-> 0, crossover |-> FALSE]
    ELSE LET n == Len(prices)
             histogram == Histogram(prices, fast, slow, signal)
         IN  [macd |-> MacdLine(prices, fast, slow)[n],
              signal |-> Ewm(MacdLine(prices, fast, slow), signal, n),
              histogram |-> histogram[n],
              crossover |-> IF n >= 2
                            THEN histogram[n - 1] < 0 /\ histogram[n] > 0
                            ELSE FALSE]

\* the RSI periods and the MACD spans the environment sets (config.py 54,
\* 58-60); the averages of spans 1 and 3 are exact on the scaled prices
RsiPeriods == {2, 3}
MacdSpans == {[fast |-> 1, slow |-> 3, signal |-> 3]}

\* The indicators are functions of their arguments and keep nothing between
\* calls: a behaviour makes one call.
CalculateRsi ==
    /\ IsNone(ev.indicator)
    /\ \E prices \in PriceSeries, period \in RsiPeriods :
          ev' = [NoEvent EXCEPT
                    !.op = "calculate_rsi",
                    !.indicator = Some([prices |-> prices, period |-> period,
                                        rsi |-> calculate_rsi(prices, period)])]
    /\ UNCHANGED <<scanner, clock, config, pc, running, today, trader, db, stats,
                   faults>>

CalculateMacd ==
    /\ IsNone(ev.indicator)
    /\ \E prices \in PriceSeries, spans \in MacdSpans :
          ev' = [NoEvent EXCEPT
                    !.op = "calculate_macd",
                    !.indicator = Some([prices |-> prices, spans |-> spans,
                                        macd |-> calculate_macd(
                                            prices, spans.fast, spans.slow,
                                            spans.signal)])]
    /\ UNCHANGED <<scanner, clock, config, pc, running, today, trader, db, stats,
                   faults>>

NextIndicators ==
    \/ CalculateRsi
    \/ CalculateMacd

SpecIndicators == Init /\ [][NextIndicators]_vars

\* The world of SpecTrailing: entries at 30.0 and at 100.0, and ticks at 1%
\* and 2% above each (30.3, 30.6, 101.0, 102.0) and at the 2% floor of the
\* lower one (29.4).
TrailingWorld ==
    [World EXCEPT !.buy_fills = {300, 1000}, !.balances = {1000},
                  !.quantity_faults = {FALSE},
                  !.tick_prices = {294, 303, 306, 1010, 1020},
                  !.sell_fills = {1020}, !.read_faults = FALSE, !.max_day = 0]

NextTrailing ==
    \/ MonitorTick(TrailingWorld)
    \/ GovernorBlocks
    \/ ScanCycle(TrailingWorld)
    \/ Shutdown(TrailingWorld)

SpecTrailing == Init /\ [][NextTrailing]_vars

\* The world of SpecErrors: every step of the loop may raise.  The scan and
\* the statistics read raise as in Spec, the ledger writes as in SpecFaults.
ErrorWorld == [FaultWorld EXCEPT !.read_faults = TRUE]

NextErrors ==
    \/ MonitorTick(ErrorWorld)
    \/ GovernorBlocks
    \/ GovernorReadFails(ErrorWorld)
    \/ ScanCycle(ErrorWorld)
    \/ Shutdown(ErrorWorld)
    \/ Midnight(ErrorWorld)

SpecErrors == Init /\ [][NextErrors]_vars

\* The loop of a process that may be stopped and started again: the ledger
\* file is kept, the Trader is constructed anew (trader.py 33-41) and nothing
\* reads the OPEN row back into it.
NextRestart ==
    \/ MonitorTick(World)
    \/ ScanCycle(World)
    \/ Restart

SpecRestart == Init /\ [][NextRestart]_vars

\* ------------------------------------------------------- the loop, running on
\* The world of SpecLive: the loop left running, with price fetches that fail
\* or succeed and sell orders that are rejected or filled, and a ledger that
\* does not fail.
LiveWorld ==
    [World EXCEPT !.balances = {1000}, !.quantity_faults = {FALSE},
                  !.tick_prices = {980, 1005, 1030}, !.sell_fills = {980, 1020},
                  !.read_faults = FALSE, !.max_day = 0]

NextLive ==
    \/ MonitorTick(LiveWorld)
    \/ GovernorBlocks
    \/ ScanCycle(LiveWorld)

\* the loop is at a monitoring tick (main.py 137-139)
TickPossible == pc = "loop" /\ running /\ has_open_position(trader)

\* a monitoring tick whose price fetch succeeds and whose sell order, if it
\* places one, is filled (trader.py 267-269, 336-339)
GoodTick ==
    /\ TickPossible
    /\ ev'.op = "monitor"
    /\ ~IsNone(ev'.price)
    /\ ev'.sell # "rejected"

\* a tick that leaves the position open and whose sleep lets the time in
\* the trade grow (trader.py 293)
TimeTick ==
    MonitorTickWith(LiveWorld, Orders(LiveWorld.tick_prices),
                    Orders(LiveWorld.sell_fills), {1})

\* The loop monitors an open position every second (main.py 137-141): time
\* advances while a position is open, and, as long as the loop comes to a
\* monitoring tick again and again, again and again a tick has its price
\* fetched and its sell order filled.  The last is the strong fairness of
\* GoodTick, written with TickPossible for ENABLED <<GoodTick>>_vars.
SpecLive ==
    /\ Init
    /\ [][NextLive]_vars
    /\ WF_vars(TimeTick)
    /\ (<>[]~TickPossible \/ []<><<GoodTick>>_vars)

\* ===================================================================== claims
\* the ids of the ledger's OPEN rows
OpenRows(table) == {i \in 1..Len(table) : table[i].status = "OPEN"}

\* the Trader's fields that make up the FLAT state
Flat(t) ==
    /\ IsNone(t.current_position)
    /\ IsNone(t.entry_time)
    /\ t.highest_price = 0
    /\ ~t.trailing_stop_active

\* ------------------------------------------------------------------------ C1
\* C1: in any run of the orchestration loop at most one position is open: the
\* ledger never holds two OPEN rows, and a step that places a buy order or
\* appends a ledger row starts with no position held and no OPEN row.
C1_OnePositionAtATime ==
    [][/\ Cardinality(OpenRows(db'.trades)) <= 1
       /\ (ev'.buy # "none" \/ Len(db'.trades) > Len(db.trades))
              => (IsNone(trader.current_position) /\ OpenRows(db.trades) = {})]_vars

\* a second position was opened after the first one was closed
C1_Witness ==
    /\ Len(db.trades) = 2
    /\ db.trades[1].status = "CLOSED"
    /\ db.trades[2].status = "OPEN"
    /\ ev.buy = "filled"
    /\ ~IsNone(trader.current_position)

\* ------------------------------------------------------------------------ C2
\* C2: enter_trade called while a position is open returns failure, places no
\* buy order, appends no ledger row and leaves every field of the Trader as
\* it was.
C2_EnterWhileOpenRejected ==
    [][(ev'.op = "enter_trade" /\ ~IsNone(trader.current_position))
          => /\ ev'.ret = "False"
             /\ ev'.buy = "none"
             /\ db' = db
             /\ trader' = trader]_vars

\* enter_trade was called with a position open and answered
C2_Witness ==
    /\ ev.op = "enter_trade"
    /\ ev.buy = "filled"
    /\ Cardinality(OpenRows(db.trades)) = 2

\* ------------------------------------------------------------------------ C3
\* C3: once trailing_stop_active is set for a position, the stop a tick
\* compares the price against is never below the stop of the tick before,
\* as long as the position stays open.
C3_TrailingStopMonotone ==
    [][(/\ ev'.op = "monitor"
        /\ trader.trailing_stop_active
        /\ ~IsNone(trader.stop_loss_price)
        /\ ~IsNone(trader'.stop_loss_price)
        /\ trader'.current_position = trader.current_position)
          => The(trader'.stop_loss_price) >= The(trader.stop_loss_price)]_vars

\* the trailing stop is armed and the position is still open after a tick
\* at a price of 1% profit or less
C3_Witness ==
    /\ ev.op = "monitor"
    /\ ~IsNone(trader.current_position)
    /\ trader.trailing_stop_active
    /\ ~IsNone(trader.stop_loss_price)
    /\ The(trader.stop_loss_price) = trader.initial_stop_loss
    /\ trader.highest_price * TrailFactor > trader.initial_stop_loss

\* ------------------------------------------------------------------------ C4
\* C4: a sell order that fails during an exit leaves the position open with
\* the position record, the entry time, the high-water mark and the trailing
\* flag as exit_trade found them, and the ledger as it was; after a tick the
\* loop is at its monitoring branch again with the same position.
C4_FailedSellKeepsPosition ==
    [][ev'.sell = "rejected"
          => /\ ~IsNone(ev'.at_exit)
             /\ ~IsNone(trader'.current_position)
             /\ trader'.current_position = trader.current_position
             /\ trader'.current_position = The(ev'.at_exit).current_position
             /\ trader'.entry_time = The(ev'.at_exit).entry_time
             /\ trader'.entry_time = trader.entry_time
             /\ trader'.highest_price = The(ev'.at_exit).highest_price
             /\ trader'.trailing_stop_active = The(ev'.at_exit).trailing_stop_active
             /\ db' = db
             /\ OpenRows(db'.trades) = {The(trader'.current_position).trade_id}
             /\ (ev'.op = "monitor" => (pc' = "loop" /\ running'))]_vars

\* a tick decided to exit at the trailing stop and the sell was rejected
C4_Witness ==
    /\ ev.op = "monitor"
    /\ ev.sell = "rejected"
    /\ ev.reason = Some("TRAILING_STOP")
    /\ ~IsNone(trader.current_position)
    /\ pc = "loop" /\ running

\* ------------------------------------------------------------------------ C5
\* C5: an entry attempt with capital below the minimum or a quantity of 0
\* places no buy order and fails; a rejected buy order fails; and a failed
\* entry creates no position, appends no ledger row and leaves every field
\* of the Trader as it was.
C5_RejectedEntryAbortsCleanly ==
    [][(ev'.op = "scan" /\ ~IsNone(ev'.sized))
          => /\ (The(ev'.sized).capital_c < 10 * 100 \/ The(ev'.sized).quantity = 0)
                    => (ev'.ret = "False" /\ ev'.buy = "none")
             /\ ev'.buy = "rejected" => ev'.ret = "False"
             /\ ev'.ret = "False"
                    => /\ trader' = trader
                       /\ db' = db
                       /\ IsNone(trader'.current_position)]_vars

\* after a closed trade, an entry with enough capital whose quantity rounds
\* to 0 was rejected
C5_Witness ==
    /\ ev.op = "scan"
    /\ ~IsNone(ev.sized)
    /\ The(ev.sized).capital_c >= 10 * 100
    /\ The(ev.sized).quantity = 0
    /\ ev.ret = "False"
    /\ Len(db.trades) = 1
    /\ Flat(trader)

\* ------------------------------------------------------------------------ C6
\* C6: every exit whose sell order filled leaves the row of the position's
\* trade id CLOSED with the exit's reason, appends no row, and leaves the
\* Trader FLAT, whatever the ledger write does.
C6_FilledExitClosesAndClears ==
    [][(ev'.sell = "filled" /\ ~IsNone(ev'.at_exit))
          => /\ Flat(trader')
             /\ Len(db'.trades) = Len(db.trades)
             /\ \E id \in 1..Len(db'.trades) :
                   /\ id = The(The(ev'.at_exit).current_position).trade_id
                   /\ db'.trades[id].status = "CLOSED"
                   /\ db'.trades[id].exit_reason = ev'.reason]_vars

\* the sell filled, the ledger write raised, and the position is still held
C6_Witness ==
    /\ ev.sell = "filled"
    /\ ev.ret = "raise"
    /\ ~IsNone(trader.current_position)
    /\ OpenRows(db.trades) = {The(trader.current_position).trade_id}

\* ------------------------------------------------------------------------ C7
\* the length of the run of losing CLOSED rows that ends at row n
RECURSIVE LosingRunTo(_, _)
LosingRunTo(table, n) ==
    IF n = 0 THEN 0
    ELSE IF table[n].status = "CLOSED" /\ RowProfit(table[n]) < 0
         THEN 1 + LosingRunTo(table, n - 1)
         ELSE 0

LosingRun(table) == LosingRunTo(table, Len(table))

\* C7: when the third losing trade in a row has just been closed, the next
\* governor evaluation that passes the daily limits sleeps the cooldown
\* first and leaves the consecutive-loss counter at 0.
C7_ThreeLossesCoolDown ==
    [][(/\ ev.op = "monitor" /\ ev.sell = "filled"
        /\ LosingRun(db.trades) = MAX_CONSECUTIVE_LOSSES
        /\ ev'.governor = "allow")
          => /\ ev'.cooldown
             /\ ev'.sleeps # <<>>
             /\ ev'.sleeps[1] = PAUSE_AFTER_LOSSES
             /\ stats'.consecutive_losses = 0]_vars

\* three losing trades in a row were closed and the governor then allowed a
\* scan without a cooldown
C7_Witness ==
    /\ LosingRun(db.trades) = MAX_CONSECUTIVE_LOSSES
    /\ ev.op = "scan"
    /\ ev.governor = "allow"
    /\ ~ev.cooldown

\* ------------------------------------------------------------------------ C8
\* C8: at every governor evaluation the consecutive-loss counter equals the
\* length of the current run of losing closed trades (a run shorter than the
\* limit, which no cooldown has reset).
C8_CounterIsLosingRun ==
    [][(ev'.governor # "none" /\ LosingRun(db.trades) < MAX_CONSECUTIVE_LOSSES)
          => stats.consecutive_losses = LosingRun(db.trades)]_vars

\* the governor evaluated after a losing close with the counter still at 0
C8_Witness ==
    /\ ev.governor # "none"
    /\ LosingRun(db.trades) = 1
    /\ stats.consecutive_losses = 0

\* ------------------------------------------------------------------------ C9
\* C9: while today's aggregate trade count equals MAX_TRADES_PER_DAY and the
\* date does not change, no step scans, places a buy order or appends a
\* ledger row, and the count still equals the maximum after the step.
C9_TradeLimitBlocks ==
    [][(/\ get_daily_stats(db.performance, today).total_trades
               = config.MAX_TRADES_PER_DAY
        /\ today' = today)
          => /\ ~ev'.scanned
             /\ ev'.buy = "none"
             /\ Len(db'.trades) = Len(db.trades)
             /\ get_daily_stats(db'.performance, today').total_trades
                    = config.MAX_TRADES_PER_DAY]_vars

\* the governor blocked on the second of two allowed trades
C9_Witness ==
    /\ ev.op = "governor"
    /\ ev.governor = "trades"
    /\ config.MAX_TRADES_PER_DAY = 2
    /\ get_daily_stats(db.performance, today).total_trades = 2

\* ----------------------------------------------------------------------- C10
\* the trades closed on the date: the entry date plus the duration
ClosedAt(table, date) ==
    {i \in 1..Len(table) :
        /\ table[i].status = "CLOSED"
        /\ table[i].date + The(table[i].duration) = date}

\* C10: while the P&L% realized today, summed over the trades closed today,
\* is at or below minus MAX_DAILY_LOSS_PERCENT and the date does not change,
\* no step scans or places a buy order.
C10_LossLimitBlocks ==
    [][(/\ SumProfit(db.trades, ClosedAt(db.trades, today))
               <= -(config.MAX_DAILY_LOSS_PERCENT * 100)
        /\ today' = today)
          => (~ev'.scanned /\ ev'.buy = "none")]_vars

\* a trade opened the day before was closed today at the loss limit and the
\* loop scanned again the same day
C10_Witness ==
    /\ today = 1
    /\ ev.scanned
    /\ SumProfit(db.trades, ClosedAt(db.trades, today))
           <= -(config.MAX_DAILY_LOSS_PERCENT * 100)

\* C10 for the trades opened and closed on the same date, which are the ones
\* update_daily_performance sums: while their summed P&L% is at or below the
\* limit and the date does not change, no step scans or places a buy order.
C10_SameDayLossLimitBlocks ==
    [][(/\ SumProfit(db.trades, ClosedOn(db.trades, today) \cap
                                ClosedAt(db.trades, today))
               <= -(config.MAX_DAILY_LOSS_PERCENT * 100)
        /\ today' = today)
          => (~ev'.scanned /\ ev'.buy = "none")]_vars

\* ----------------------------------------------------------------------- C11
\* C11: when the shutdown signal arrives while a position is held, between
\* two operations or inside one, the handler attempts one sell for that
\* position, with its quantity, and the loop does not run again.
C11_OneFinalExitOnShutdown ==
    [][(ev'.op = "shutdown" /\ ~IsNone(trader.current_position))
          => /\ ev'.sell \in {"filled", "rejected"}
             /\ ev'.reason = Some("SHUTDOWN")
             /\ ~IsNone(ev'.at_exit)
             /\ The(ev'.at_exit).current_position = trader.current_position
             /\ ~running'
             /\ pc' \in {"exited", "stopped"}]_vars

\* the signal arrived inside a monitoring tick and the final sell filled
C11_Witness ==
    /\ ev.op = "shutdown"
    /\ ev.during = "monitor_position"
    /\ ev.sell = "filled"
    /\ pc = "exited"
    /\ Flat(trader)

\* ----------------------------------------------------------------------- C12
\* C12: when the sell of the final exit is rejected, the handler does not
\* end the process with status 0.
C12_FailedFinalExitEscalated ==
    [][(ev'.op = "shutdown" /\ ev'.sell = "rejected")
          => ev'.exit_code # Some(0)]_vars

\* the final sell was rejected, the position is still held and the process
\* ended with status 0
C12_Witness ==
    /\ ev.op = "shutdown"
    /\ ev.sell = "rejected"
    /\ ev.exit_code = Some(0)
    /\ pc = "exited"
    /\ ~IsNone(trader.current_position)

\* ----------------------------------------------------------------------- C13
\* C13: the handler starts no exit while enter_trade, monitor_position or
\* exit_trade is in progress.
C13_TransitionsSerialized ==
    [][(ev'.op = "shutdown" /\ ev'.during # "none") => ev'.sell = "none"]_vars

\* the handler sold inside an exit_trade whose own sell had already filled
C13_Witness ==
    /\ ev.op = "shutdown"
    /\ ev.during = "exit_trade"
    /\ ev.sold_before
    /\ ev.sell = "filled"

\* ----------------------------------------------------------------------- C14
\* C14: a failed ledger write is not dropped in silence.  A step whose sell
\* filled and that leaves the Trader without the position leaves the
\* position's row CLOSED, not OPEN or missing; a step whose sell filled and
\* whose row is not CLOSED afterwards, and a step whose buy filled without a
\* position stored, reach the loop as an exception.
C14_LedgerFailureSurfaced ==
    [][/\ (ev'.sell = "filled" /\ ~IsNone(ev'.at_exit))
             => \E id \in {The(The(ev'.at_exit).current_position).trade_id} :
                   /\ IsNone(trader'.current_position)
                         => (id \in RowIds(db'.trades)
                             /\ db'.trades[id].status = "CLOSED")
                   /\ (id \notin RowIds(db'.trades) \/ db'.trades[id].status # "CLOSED")
                         => ev'.ret = "raise"
       /\ (ev'.buy = "filled" /\ IsNone(trader'.current_position))
             => ev'.ret = "raise"]_vars

\* the position's row was deleted, the sell filled, nothing was written or
\* raised, and the Trader is FLAT
C14_Witness ==
    /\ ev.sell = "filled"
    /\ ev.ret = "True"
    /\ Flat(trader)
    /\ ~IsNone(ev.at_exit)
    /\ The(The(ev.at_exit).current_position).trade_id \notin RowIds(db.trades)

\* C14 for the writes that raise: with every row in place, a step whose sell
\* filled leaves the Trader FLAT only with the row CLOSED, and every failed
\* write reaches the loop as an exception.
C14_RaisedWriteSurfaced ==
    [][(\A i \in 1..Len(db.trades) : i \in RowIds(db.trades))
          => /\ (ev'.sell = "filled" /\ ~IsNone(ev'.at_exit))
                   => \E id \in {The(The(ev'.at_exit).current_position).trade_id} :
                         /\ IsNone(trader'.current_position)
                               => db'.trades[id].status = "CLOSED"
                         /\ db'.trades[id].status # "CLOSED" => ev'.ret = "raise"
             /\ (ev'.buy = "filled" /\ IsNone(trader'.current_position))
                   => ev'.ret = "raise"]_vars

\* ----------------------------------------------------------------------- C15
\* the Trader's fields a tick decided on: the ones exit_trade was called on,
\* or the ones the tick left when it did not exit
TickFields(e, t) == IF IsNone(e.at_exit) THEN t ELSE The(e.at_exit)

\* C15: a tick that fetched a price takes the take-profit reason when the
\* price is at or above the take profit, whatever the stop and the duration;
\* otherwise, with the price at or below the stop, the trailing-stop reason
\* when the trailing flag is set and the stop-loss reason when it is not,
\* whatever the duration; otherwise the max-duration reason when the
\* duration has elapsed; otherwise none.
C15_ExitPriority ==
    [][(ev'.ticked /\ ~IsNone(ev'.price))
          => ev'.reason =
                IF The(ev'.price) * 1000 >= TickFields(ev', trader').initial_take_profit
                THEN Some("TAKE_PROFIT_DYNAMIC")
                ELSE IF The(ev'.price) * 1000
                            <= The(TickFields(ev', trader').stop_loss_price)
                THEN IF TickFields(ev', trader').trailing_stop_active
                     THEN Some("TRAILING_STOP")
                     ELSE Some("STOP_LOSS_DYNAMIC")
                ELSE IF trader.time_in_trade >= MaxDurationUnits
                THEN Some("MAX_DURATION")
                ELSE None]_vars

\* a tick took the take-profit reason with the price also under the trailing
\* stop and the duration elapsed
C15_Witness ==
    /\ ev.ticked
    /\ ~IsNone(ev.price)
    /\ ev.reason = Some("TAKE_PROFIT_DYNAMIC")
    /\ ~IsNone(ev.at_exit)
    /\ The(ev.at_exit).trailing_stop_active
    /\ The(ev.price) * 1000 <= The(The(ev.at_exit).stop_loss_price)
    /\ The(ev.at_exit).time_in_trade >= MaxDurationUnits

\* C16: every position is created with its stop loss at or below its entry
\* price and its take profit at or above it, whether the targets come from
\* the ATR or from the fixed percentages, for every entry price and every
\* non-negative volatility.
C16_TargetsBracketEntry ==
    (ev.op = "enter_trade" /\ ev.ret = "True")
        => /\ The(trader.current_position).sl_price
                  <= The(trader.current_position).entry_price * 1000
           /\ The(trader.current_position).entry_price * 1000
                  <= The(trader.current_position).tp_price
           /\ trader.initial_stop_loss = The(trader.current_position).sl_price
           /\ trader.initial_take_profit = The(trader.current_position).tp_price

\* a position created from a long history whose volatility is 0: the take
\* profit is the entry price itself
C16_Witness ==
    /\ ev.op = "enter_trade" /\ ev.ret = "True"
    /\ The(ev.opportunity).hist_len >= MinHistory
    /\ The(ev.opportunity).volatility = 0
    /\ The(trader.current_position).tp_price
           = The(trader.current_position).entry_price * 1000
    /\ The(trader.current_position).sl_price
           < The(trader.current_position).entry_price * 1000

\* a position created from a short history, with the fixed percentages
C16_FallbackWitness ==
    /\ ev.op = "enter_trade" /\ ev.ret = "True"
    /\ The(ev.opportunity).hist_len < MinHistory
    /\ The(trader.current_position).sl_price
           < The(trader.current_position).entry_price * 1000
    /\ The(trader.current_position).tp_price
           > The(trader.current_position).entry_price * 1000

\* x brought into lo..hi
Clamp(x, lo, hi) == IF x < lo THEN lo ELSE IF x > hi THEN hi ELSE x

\* C17: with at least MinHistory samples the risk levels at entry are
\* stop loss = clamp(entry - 2 ATR, 98% of entry, 99.7% of entry) and take
\* profit = entry + 3 ATR, where ATR is entry * volatility; with fewer
\* samples they are the fixed percentages of config.py.  An entry at 100
\* with ATR 1 gets the stop loss 98 and the take profit 103.
C17_TargetsFormula ==
    (ev.op = "enter_trade" /\ ev.ret = "True")
        => LET entry == The(trader.current_position).entry_price
               atr   == (entry * The(ev.opportunity).volatility) \div 10
           IN  IF The(ev.opportunity).hist_len >= 20
               THEN /\ The(trader.current_position).sl_price
                          = Clamp(entry * 1000 - 2 * atr, entry * 980, entry * 997)
                    /\ The(trader.current_position).tp_price
                          = entry * 1000 + 3 * atr
                    /\ (entry = 1000 /\ atr = 10000)
                          => /\ The(trader.current_position).sl_price = 980000
                             /\ The(trader.current_position).tp_price = 1030000
               ELSE /\ The(trader.current_position).sl_price = entry * 997
                    /\ The(trader.current_position).tp_price = entry * 1005

\* the entry at 100 with ATR 1, from a history of exactly MinHistory samples
C17_Witness ==
    /\ ev.op = "enter_trade" /\ ev.ret = "True"
    /\ The(ev.opportunity).hist_len = MinHistory
    /\ The(ev.opportunity).volatility = 100
    /\ The(trader.current_position).entry_price = 1000
    /\ The(trader.current_position).sl_price = 980000
    /\ The(trader.current_position).tp_price = 1030000

\* an entry whose entry - 2 ATR is above the upper bound, and one from a
\* history one sample short
C17_ClampedAbove ==
    /\ ev.op = "enter_trade" /\ ev.ret = "True"
    /\ The(ev.opportunity).hist_len >= MinHistory
    /\ The(ev.opportunity).volatility = 10
    /\ The(trader.current_position).sl_price
           = The(trader.current_position).entry_price * 997

C17_ShortHistory ==
    /\ ev.op = "enter_trade" /\ ev.ret = "True"
    /\ The(ev.opportunity).hist_len = MinHistory - 1
    /\ The(ev.opportunity).volatility = 100
    /\ The(trader.current_position).tp_price
           = The(trader.current_position).entry_price * 1005

\* C18: while a position is open its high-water mark never decreases and is
\* at least the entry price; it starts as the entry price, a tick that
\* fetched a price leaves the larger of the mark and that price, and nothing
\* else moves it, so that after every such tick it is the maximum of the
\* entry price and the prices fetched so far.
C18_HighWaterMark ==
    [][/\ ~IsNone(trader'.current_position)
            => trader'.highest_price >= The(trader'.current_position).entry_price
       /\ (IsNone(trader.current_position) /\ ~IsNone(trader'.current_position))
            => trader'.highest_price = The(trader'.current_position).entry_price
       /\ (~IsNone(trader.current_position) /\ ~IsNone(trader'.current_position))
            => /\ trader'.highest_price >= trader.highest_price
               /\ ~(ev'.ticked /\ ~IsNone(ev'.price))
                     => trader'.highest_price = trader.highest_price
       /\ (ev'.ticked /\ ~IsNone(ev'.price))
            => TickFields(ev', trader').highest_price
                  = Max(trader.highest_price, The(ev'.price))]_vars

\* a tick that fetched a price below the mark of a position that stays open
C18_Witness ==
    /\ ev.ticked /\ ~IsNone(ev.price)
    /\ ~IsNone(trader.current_position)
    /\ The(ev.price) < trader.highest_price
    /\ trader.highest_price > The(trader.current_position).entry_price

\* C19: a monitoring tick whose price fetch fails places no sell order,
\* leaves the position, the high-water mark, the trailing flag and the stop
\* and target as they were, writes nothing to the ledger, and the loop goes
\* on to monitor again after the tick's one-second sleep.
C19_FailedFetchHasNoEffect ==
    [][(ev'.op = "monitor" /\ IsNone(ev'.price))
          => /\ ev'.ret = "True"
             /\ ev'.sell = "none"
             /\ IsNone(ev'.reason)
             /\ [trader' EXCEPT !.time_in_trade = trader.time_in_trade] = trader
             /\ db' = db
             /\ stats' = stats
             /\ ev'.sleeps = <<TickSleep>>
             /\ pc' = "loop" /\ running'
             /\ ~IsNone(trader'.current_position)]_vars

\* a failed fetch on a position whose trailing stop is armed and whose
\* duration has run out
C19_Witness ==
    /\ ev.op = "monitor" /\ IsNone(ev.price)
    /\ ~IsNone(trader.current_position)
    /\ trader.trailing_stop_active
    /\ trader.highest_price > The(trader.current_position).entry_price
    /\ trader.time_in_trade >= MaxDurationUnits

\* C20: an iteration of the loop is either one monitoring tick and nothing
\* else, when a position is open, or a governor check followed, only when it
\* permits, by one scan and at most one entry attempt; no scan and no entry
\* happens without a governor check that permitted it in the same iteration.
C20_OneBranchPerIteration ==
    [][/\ ev'.op \in {"monitor", "governor", "scan"}
            => IF ~IsNone(trader.current_position)
               THEN /\ ev'.op = "monitor" /\ ev'.ticked
                    /\ ev'.governor = "none" /\ ~ev'.scanned
                    /\ ev'.buy = "none"
                    /\ stats' = stats
                    /\ Len(db'.trades) = Len(db.trades)
               ELSE /\ ev'.op \in {"governor", "scan"} /\ ~ev'.ticked
                    /\ ev'.sell = "none"
                    /\ ev'.scanned = (ev'.op = "scan")
                    /\ ev'.governor # "allow"
                          => /\ ~ev'.scanned /\ ev'.buy = "none"
                             /\ trader' = trader /\ db' = db
                    /\ Len(db'.trades) <= Len(db.trades) + 1
       /\ (ev'.scanned \/ ev'.buy # "none")
            => /\ ev'.governor = "allow"
               /\ IsNone(trader.current_position)
       /\ ev'.buy # "none" => ev'.scanned]_vars

\* a second entry of the day, by a scan the governor permitted
C20_Witness ==
    /\ ev.op = "scan" /\ ev.scanned /\ ev.governor = "allow"
    /\ ev.buy = "filled" /\ ev.ret = "True"
    /\ ~IsNone(trader.current_position)
    /\ Len(db.trades) = 2

\* the governor blocked with no position open: no scan, no entry
C20_BlockedWitness ==
    /\ ev.op = "governor" /\ ev.governor = "trades"
    /\ ~ev.scanned /\ ev.buy = "none"
    /\ IsNone(trader.current_position)

\* the configurations validate_config is bound to refuse for their weights,
\* their stop loss and take profit, or their capital fraction
BadWeights(cfg) == Abs(WeightsSum(cfg.weights) - 1000) > 10
BadTargets(cfg) == cfg.STOP_LOSS_PERCENT >= cfg.TAKE_PROFIT_PERCENT
BadCapital(cfg) == cfg.CAPITAL_PER_TRADE <= 0 \/ cfg.CAPITAL_PER_TRADE > 100

\* C21: with weights that do not sum to 1 within 0.01, a stop-loss percent
\* at or above the take-profit percent, or a capital fraction outside
\* (0, 1], the run never enters the loop: it is never running, no iteration
\* runs, nothing is scanned, no order is placed and the ledger stays empty.
C21_InvalidConfigNeverStarts ==
    (BadWeights(config) \/ BadTargets(config) \/ BadCapital(config))
        => /\ pc \in {"start", "returned"}
           /\ ~running
           /\ ev.op \in {"init", "run"}
           /\ ev.op = "run" => ev.ret = "config_error"
           /\ ~ev.scanned /\ ev.buy = "none" /\ ev.sell = "none"
           /\ db = InitDb
           /\ trader = InitTrader

\* run returned on a configuration whose only error is a stop loss equal to
\* the take profit
C21_Witness ==
    /\ ev.op = "run" /\ ev.ret = "config_error"
    /\ pc = "returned"
    /\ config.STOP_LOSS_PERCENT = config.TAKE_PROFIT_PERCENT
    /\ ~BadWeights(config) /\ ~BadCapital(config)
    /\ db = InitDb

\* C22: with every other parameter valid, validation rejects the startup
\* exactly when the sum of the five weights differs from 1.0 by more than
\* 0.01.
C22_WeightsRejectedIffOff ==
    [][(/\ ev'.op = "run"
        /\ ~BadTargets(config) /\ ~BadCapital(config)
        /\ config.TAKE_PROFIT_PERCENT > 0 /\ config.STOP_LOSS_PERCENT > 0
        /\ config.DRY_RUN \/ config.credentials)
          => (ev'.ret = "config_error") = BadWeights(config)]_vars

\* weights that sum to 0.99 were rejected
C22_Witness ==
    /\ ev.op = "run" /\ ev.ret = "config_error"
    /\ WeightsSum(config.weights) = 990
    /\ ~BadTargets(config) /\ ~BadCapital(config)
    /\ config.DRY_RUN

\* C22 away from the tolerance itself: a sum farther than 0.01 from 1 is
\* rejected and a sum nearer than 0.01 is accepted.
C22_OffTheTolerance ==
    [][(/\ ev'.op = "run"
        /\ Abs(WeightsSum(config.weights) - 1000) # 10
        /\ ~BadTargets(config) /\ ~BadCapital(config)
        /\ config.TAKE_PROFIT_PERCENT > 0 /\ config.STOP_LOSS_PERCENT > 0
        /\ config.DRY_RUN \/ config.credentials)
          => (ev'.ret = "config_error") = BadWeights(config)]_vars

\* the results of the last scan, and the scores of its instruments
Scanned == IF IsNone(ev.scan) THEN <<>> ELSE The(ev.scan).results

InScale(x, unit) == 0 <= x /\ x <= 10 * unit

\* C23: under every table of weights that validation accepts, each of the
\* five scores of a scored instrument and its composite score are between 0
\* and 10.
C23_ScoresInScale ==
    validate_config(config, FALSE)
        => \A i \in 1..Len(Scanned) :
              /\ InScale(Scanned[i].scores.volatility, 100)
              /\ InScale(Scanned[i].scores.volume, 100)
              /\ InScale(Scanned[i].scores.momentum, 100)
              /\ InScale(Scanned[i].scores.technical, 100)
              /\ InScale(Scanned[i].scores.risk, 100)
              /\ InScale(Scanned[i].final_score, 100000)

\* under weights 1.009, 0, 0, 0, 0 an instrument with the volatility score
\* 10 has the composite 10.09
C23_Witness ==
    /\ validate_config(config, FALSE)
    /\ WeightsSum(config.weights) = 1009
    /\ Len(Scanned) > 0
    /\ Scanned[1].scores.volatility = 1000
    /\ Scanned[1].final_score = 1009000

\* C23 for the five scores alone, and for the composite under the default
\* weights
C23_SubScoresInScale ==
    \A i \in 1..Len(Scanned) :
        /\ InScale(Scanned[i].scores.volatility, 100)
        /\ InScale(Scanned[i].scores.volume, 100)
        /\ InScale(Scanned[i].scores.momentum, 100)
        /\ InScale(Scanned[i].scores.technical, 100)
        /\ InScale(Scanned[i].scores.risk, 100)
        /\ config.weights = DefaultWeights
              => InScale(Scanned[i].final_score, 100000)

\* the symbols of a sequence of results
Symbols(results) == {results[i].symbol : i \in 1..Len(results)}

\* C24: a scan returns an opportunity only with a composite score at or
\* above MIN_SCORE_TO_TRADE, and the one it returns has the highest
\* composite score of the instruments scored in that scan; with no
\* instrument scored, or the best score below the threshold, it returns
\* none, and nothing is bought.
C24_BestAboveThreshold ==
    (~IsNone(ev.scan) /\ ~The(ev.scan).raised)
        => /\ IsNone(The(ev.scan).best)
                 = (\A i \in 1..Len(Scanned) :
                       Scanned[i].final_score < config.MIN_SCORE_TO_TRADE * 100000)
           /\ ~IsNone(The(ev.scan).best)
                 => /\ The(The(ev.scan).best).final_score
                          >= config.MIN_SCORE_TO_TRADE * 100000
                    /\ \E i \in 1..Len(Scanned) : Scanned[i] = The(The(ev.scan).best)
                    /\ \A i \in 1..Len(Scanned) :
                          Scanned[i].final_score
                              <= The(The(ev.scan).best).final_score
           /\ ev.opportunity = The(ev.scan).best
           /\ IsNone(The(ev.scan).best) => ev.buy = "none"

\* two instruments above the threshold were scored and the second of the
\* universe, which has the higher score, was returned and bought
C24_Witness ==
    /\ ~IsNone(ev.scan)
    /\ config.weights = DefaultWeights
    /\ Len(Scanned) = 2
    /\ Scanned[2].final_score >= config.MIN_SCORE_TO_TRADE * 100000
    /\ Scanned[2].final_score < Scanned[1].final_score
    /\ ~IsNone(ev.opportunity)
    /\ The(ev.opportunity).symbol = ScanSymbolsUniverse[2]
    /\ ev.buy = "filled"

\* the best of the instruments scored is below the threshold: no opportunity
C24_BelowThreshold ==
    /\ ~IsNone(ev.scan)
    /\ Len(Scanned) = 2
    /\ IsNone(The(ev.scan).best)
    /\ ev.buy = "none" /\ ev.ret = "none"

\* the symbols of the market whose history, statistics and scoring all
\* succeed
Healthy(market) ==
    {x \in DOMAIN market.feeds :
        /\ market.feeds[x].history = "ok"
        /\ market.feeds[x].stats = "ok"
        /\ market.feeds[x].scoring = "ok"}

\* C25: when the universe was fetched, a failure for one instrument (its
\* history or statistics cannot be fetched, its history is short, or its
\* scoring raises) does not leave the scan as an exception, scan_coin is
\* still called for every instrument of the universe, and the results are
\* exactly the instruments for which everything succeeded.
C25_FailedInstrumentSkipped ==
    (~IsNone(ev.market) /\ The(ev.market).universe.kind = "ok")
        => /\ ~The(ev.scan).raised
           /\ ev.ret # "raise"
           /\ The(ev.scan).fetched = The(ev.market).universe.symbols
           /\ Len(Scanned) = Cardinality(Symbols(Scanned))
           /\ Symbols(Scanned)
                 = {The(ev.market).universe.symbols[i] :
                       i \in 1..Len(The(ev.market).universe.symbols)}
                   \cap Healthy(The(ev.market))

\* the ticker call of the first instrument raised something else than a
\* BinanceAPIException; the second was scored and bought
C25_Witness ==
    /\ ~IsNone(ev.market)
    /\ The(ev.market).universe.kind = "ok"
    /\ The(ev.market).feeds[ScanSymbolsUniverse[1]].stats = "other_error"
    /\ Symbols(Scanned) = {ScanSymbolsUniverse[2]}
    /\ The(ev.scan).fetched = ScanSymbolsUniverse
    /\ ev.buy = "filled"

\* C26: when the fetch of the universe fails, whatever the failure, the
\* scan returns empty without raising and without fetching anything for a
\* symbol, and the loop takes it as no opportunity: no entry is attempted.
C26_UniverseFailureScansEmpty ==
    (~IsNone(ev.market) /\ The(ev.market).universe.kind # "ok")
        => /\ ~The(ev.scan).raised
           /\ ev.ret = "none"
           /\ Scanned = <<>>
           /\ The(ev.scan).fetched = <<>>
           /\ IsNone(The(ev.scan).best)
           /\ IsNone(ev.opportunity) /\ IsNone(ev.sized)
           /\ ev.buy = "none"

\* the ticker call raised something else than a BinanceAPIException and the
\* scan left get_best_opportunity as an exception
C26_Witness ==
    /\ ~IsNone(ev.market)
    /\ The(ev.market).universe.kind = "other_error"
    /\ The(ev.scan).raised
    /\ ev.ret = "raise"
    /\ ev.sleeps = <<ErrorSleep>>

\* C26 for a BinanceAPIException, and for every failure what the loop does:
\* nothing is fetched for a symbol and no entry is attempted.
C26_ApiErrorScansEmpty ==
    (~IsNone(ev.market) /\ The(ev.market).universe.kind # "ok")
        => /\ The(ev.market).universe.kind = "api_error"
                 => (~The(ev.scan).raised /\ ev.ret = "none")
           /\ Scanned = <<>>
           /\ The(ev.scan).fetched = <<>>
           /\ IsNone(ev.opportunity) /\ IsNone(ev.sized)
           /\ ev.buy = "none"

\* ----------------------------------------------------------------------- C27
\* a Position is created by the step
PositionCreated ==
    /\ ~IsNone(trader'.current_position)
    /\ trader'.current_position # trader.current_position

\* C27: the trades table holds one row per Position.  The step that creates
\* a Position appends one OPEN row, whose id the Position keeps and whose
\* symbol, entry price and quantity are the Position's, and no other step
\* changes the number of rows; the step whose sell order closes the Position
\* turns the row of that id from OPEN to CLOSED, keeps its entry fields and
\* leaves every other row and the number of rows as they were.
C27_OneRecordPerPosition ==
    [][/\ PositionCreated
            => /\ Len(db'.trades) = Len(db.trades) + 1
               /\ SubSeq(db'.trades, 1, Len(db.trades)) = db.trades
               /\ The(trader'.current_position).trade_id = Len(db'.trades)
               /\ db'.trades[Len(db'.trades)] =
                      OpenRow(today, The(trader'.current_position).symbol,
                              The(trader'.current_position).entry_price,
                              The(trader'.current_position).quantity)
       /\ ~PositionCreated => Len(db'.trades) = Len(db.trades)
       /\ (~IsNone(trader.current_position) /\ ev'.sell = "filled")
            => LET id == The(trader.current_position).trade_id
               IN  /\ db.trades[id].status = "OPEN"
                   /\ db'.trades[id].status = "CLOSED"
                   /\ db'.trades[id].date = db.trades[id].date
                   /\ db'.trades[id].symbol = db.trades[id].symbol
                   /\ db'.trades[id].entry_price = db.trades[id].entry_price
                   /\ db'.trades[id].quantity = db.trades[id].quantity
                   /\ \A j \in 1..Len(db.trades) :
                          j # id => db'.trades[j] = db.trades[j]
                   /\ IsNone(trader'.current_position)]_vars

\* the second Position of the day was closed: two rows, both CLOSED
C27_Witness ==
    /\ ev.sell = "filled"
    /\ IsNone(trader.current_position)
    /\ Len(db.trades) = 2
    /\ \A i \in 1..2 : db.trades[i].status = "CLOSED"

\* ----------------------------------------------------------------------- C28
\* C28: a CLOSED row of the trades table is never changed again: no step
\* changes its exit price, exit reason, P&L, duration or status.
C28_ClosedRowImmutable ==
    [][\A i \in 1..Len(db.trades) :
          db.trades[i].status = "CLOSED"
            => /\ i <= Len(db'.trades)
               /\ db'.trades[i].exit_price = db.trades[i].exit_price
               /\ db'.trades[i].exit_reason = db.trades[i].exit_reason
               /\ db'.trades[i].profit_percent = db.trades[i].profit_percent
               /\ db'.trades[i].duration = db.trades[i].duration
               /\ db'.trades[i].status = db.trades[i].status]_vars

\* log_trade_exit committed its UPDATE and update_daily_performance raised:
\* the row is CLOSED and the Trader still holds its position, which the next
\* tick or the shutdown handler sells and logs again
C28_Witness ==
    /\ ev.sell = "filled"
    /\ ev.ret = "raise"
    /\ ~IsNone(trader.current_position)
    /\ db.trades[The(trader.current_position).trade_id].status = "CLOSED"

\* C28 for the steps in which no exit_trade runs on a trade id that is
\* already CLOSED: a later entry, a later close of another trade and the
\* recomputation of the day's performance leave every CLOSED row as it was.
C28_ClosedRowKeptByOtherOperations ==
    [][\A i \in 1..Len(db.trades) :
          (/\ db.trades[i].status = "CLOSED"
           /\ ~(/\ ev'.sell = "filled"
                 /\ ~IsNone(ev'.at_exit)
                 /\ ~IsNone(The(ev'.at_exit).current_position)
                 /\ The(The(ev'.at_exit).current_position).trade_id = i))
            => /\ i <= Len(db'.trades)
               /\ db'.trades[i] = db.trades[i]]_vars

\* ----------------------------------------------------------------------- C29
\* a trade is closed by the step
TradeClosed ==
    \E i \in 1..Len(db.trades) :
        /\ db.trades[i].status = "OPEN"
        /\ db'.trades[i].status = "CLOSED"

\* the rows of the performance table for the date
AggregateRows(performance, date) == {r \in performance : r.date = date}

\* the count, wins, losses, total P&L, win rate, best, worst and average
\* duration of the trades ids, as the row of the date; no row for no trade
Recomputed(table, ids, date) ==
    IF ids = {} THEN {}
    ELSE {PerformanceRow(table, ids, {<<i, RowProfit(table[i])>> : i \in ids}, date)}

\* C29: after every step that closes a trade, the performance row of the day
\* of the close is the recomputation over all the trades closed on that date,
\* and the performance table has at most one row for each date.
C29_AggregateIsRecomputation ==
    [][TradeClosed
          => /\ AggregateRows(db'.performance, today')
                    = Recomputed(db'.trades, ClosedAt(db'.trades, today'), today')
             /\ \A r1, r2 \in db'.performance :
                    r1.date = r2.date => r1 = r2]_vars

\* a trade opened the day before was closed today and today has no
\* performance row
C29_Witness ==
    /\ today = 1
    /\ ev.sell = "filled"
    /\ ClosedAt(db.trades, today) # {}
    /\ AggregateRows(db.performance, today) = {}

\* C29 with the trades of a date taken as update_daily_performance selects
\* them, by the date of their entry: after every close the row of the day
\* is the recomputation over the CLOSED trades entered that day, and no date
\* has two rows.
C29_AggregateOfEntryDate ==
    [][TradeClosed
          => /\ AggregateRows(db'.performance, today')
                    = Recomputed(db'.trades, ClosedOn(db'.trades, today'), today')
             /\ \A r1, r2 \in db'.performance :
                    r1.date = r2.date => r1 = r2]_vars

\* ----------------------------------------------------------------------- C30
\* the row as log_trade_entry wrote it: OPEN, no exit field set
OpenForm(row) ==
    /\ row.status = "OPEN"
    /\ IsNone(row.exit_price) /\ IsNone(row.profit_percent)
    /\ IsNone(row.duration) /\ IsNone(row.exit_reason)

\* the row as log_trade_exit leaves it: CLOSED, every exit field set
ClosedForm(row) ==
    /\ row.status = "CLOSED"
    /\ ~IsNone(row.exit_price) /\ ~IsNone(row.profit_percent)
    /\ ~IsNone(row.duration) /\ ~IsNone(row.exit_reason)

\* C30: a read of the trades table by another connection, at any moment of
\* a log_trade_exit, returns each row either in its OPEN form or in its
\* CLOSED form, never with only part of the exit written.
C30_ReadNeverPartial ==
    ~IsNone(ev.read)
      => \A k \in 1..Len(The(ev.read)) :
            OpenForm(The(ev.read)[k]) \/ ClosedForm(The(ev.read)[k])

\* a read between the UPDATE and its commit returned the OPEN row
C30_Witness ==
    /\ pc = "exit_commit"
    /\ ~IsNone(ev.read)
    /\ Len(The(ev.read)) = 1
    /\ OpenForm(The(ev.read)[1])
    /\ The(ev.read)[1] = db.trades[The(trader.current_position).trade_id]

\* a read after the commit and before exit_trade returned gave the CLOSED row
C30_ClosedWitness ==
    /\ pc = "exit_performance"
    /\ ~IsNone(ev.read)
    /\ Len(The(ev.read)) = 1
    /\ ClosedForm(The(ev.read)[1])
    /\ The(ev.read)[1].exit_price = ev.exit_price

C31_JsonValuesLastWriteWins ==
    \A k \in StateKeys, default \in Defaults :
        /\ IsNone(ev.last_set[k])
              => /\ get_state(db, k, default) = default
                 /\ \A r \in db.system_state : r.key # k
        /\ ~IsNone(ev.last_set[k])
              => /\ \E r \in db.system_state :
                        r.key = k /\ Some(r.value) = json_dumps(The(ev.last_set[k]))
                 /\ \A r1, r2 \in db.system_state :
                        r1.key = r2.key => r1 = r2
                 /\ The(ev.last_set[k]).type # "tuple"
                        => get_state(db, k, default) = The(ev.last_set[k])

\* ----------------------------------------------------------------------- C32
\* the cache holds an entry for the key fetched less than 30 seconds ago
Fresh(sc, now, key) ==
    /\ ~IsNone(sc.price_cache[key])
    /\ now - The(sc.price_cache[key]).time < CacheTtl

\* C32: a request for a price series is served from the cache, without a
\* call of the exchange, exactly when the cache holds an entry for its
\* symbol, interval and limit fetched less than 30 seconds earlier, and then
\* the cache is left as it is; otherwise the exchange is called, and a
\* successful call replaces the entry with the fresh series and the current
\* time and returns it, while a failed call leaves the cache as it is.  No
\* series returned is 30 seconds old or older.
C32_CacheServesFreshOnly ==
    [][ev'.op = "get_price_history"
          => LET key == The(ev'.cache_key)
                 fresh == [time |-> clock,
                           prices |-> Klines(key[1], key[2], key[3], clock)]
             IN  /\ ev'.fetch = "none" <=> Fresh(scanner, clock, key)
                 /\ ev'.fetch = "none"
                       => /\ scanner' = scanner
                          /\ ev'.prices = Some(<<The(scanner.price_cache[key]).prices>>)
                 /\ ev'.fetch = "ok"
                       => /\ scanner' = [scanner EXCEPT !.price_cache[key] = Some(fresh)]
                          /\ ev'.prices = Some(<<fresh.prices>>)
                 /\ ev'.fetch \in {"api_error", "other_error"}
                       => /\ scanner' = scanner
                          /\ ev'.prices = Some(<<>>)
                 /\ \A series \in {The(ev'.prices)[i] : i \in 1..Len(The(ev'.prices))} :
                        /\ clock - series.as_of < CacheTtl
                        /\ <<series.symbol, series.interval, series.limit>> = key]_vars

\* a series cached 29 seconds ago was served without a call of the exchange
C32_Witness ==
    /\ ev.op = "get_price_history"
    /\ ev.fetch = "none"
    /\ \E series \in {The(ev.prices)[i] : i \in 1..Len(The(ev.prices))} :
          clock - series.as_of = CacheTtl - 1

\* an entry 30 seconds old was in the cache, the exchange was called and
\* failed, and the entry is still there
C32_StaleWitness ==
    /\ ev.op = "get_price_history"
    /\ ev.fetch = "api_error"
    /\ ev.prices = Some(<<>>)
    /\ ~IsNone(scanner.price_cache[The(ev.cache_key)])
    /\ clock - The(scanner.price_cache[The(ev.cache_key)]).time = CacheTtl

\* ----------------------------------------------------------------------- C33
NonDecreasing(prices) ==
    \A i \in 1..(Len(prices) - 1) : prices[i] <= prices[i + 1]

\* the statement as the specification has it: for every price series the
\* RSI is in [0, 100], and every non-decreasing series gives 100
C33_RsiOfEverySeries ==
    ev.op = "calculate_rsi"
      => /\ The(ev.indicator).rsi \in 0..10000
         /\ NonDecreasing(The(ev.indicator).prices)
               => The(ev.indicator).rsi = 10000

\* C33: for every price series the RSI is in [0, 100]; a series of at most
\* period prices gives the neutral 50, and every series of more than period
\* prices whose last period moves are all non-decreasing gives 100.
C33_RsiInRange ==
    ev.op = "calculate_rsi"
      => LET prices == The(ev.indicator).prices
             period == The(ev.indicator).period
             rsi == The(ev.indicator).rsi
         IN  /\ rsi \in 0..10000
             /\ Len(prices) <= period => rsi = 5000
             /\ (/\ Len(prices) > period
                 /\ NonDecreasing(SubSeq(prices, Len(prices) - period, Len(prices))))
                   => rsi = 10000

\* a flat series one longer than the period has RSI 100
C33_Witness ==
    /\ ev.op = "calculate_rsi"
    /\ The(ev.indicator).prices = <<2, 2, 2>>
    /\ The(ev.indicator).period = 2
    /\ The(ev.indicator).rsi = 10000

\* a rising series no longer than the period has RSI 50
C33_ShortWitness ==
    /\ ev.op = "calculate_rsi"
    /\ The(ev.indicator).prices = <<1, 2, 3>>
    /\ The(ev.indicator).period = 3
    /\ The(ev.indicator).rsi = 5000

\* ----------------------------------------------------------------------- C34
\* the last two values of the histogram of the series, when it has them
LastTwo(indicator) ==
    IF Len(indicator.prices) < indicator.spans.slow \/ Len(indicator.prices) < 2
    THEN None
    ELSE Some(<<Histogram(indicator.prices, indicator.spans.fast,
                          indicator.spans.slow, indicator.spans.signal)
                    [Len(indicator.prices) - 1],
                Histogram(indicator.prices, indicator.spans.fast,
                          indicator.spans.slow, indicator.spans.signal)
                    [Len(indicator.prices)]>>)

\* C34: the crossover flag is true exactly when the second-to-last value of
\* the histogram is at or below 0 and the last is above 0.
C34_CrossoverFromAtOrBelowZero ==
    ev.op = "calculate_macd"
      => (The(ev.indicator).macd.crossover
            <=> /\ ~IsNone(LastTwo(The(ev.indicator)))
                /\ The(LastTwo(The(ev.indicator)))[1] <= 0
                /\ The(LastTwo(The(ev.indicator)))[2] > 0)

\* a flat series ends with a rise: the histogram goes from exactly 0 to
\* above 0 and the flag is false
C34_Witness ==
    /\ ev.op = "calculate_macd"
    /\ The(ev.indicator).prices = <<1, 1, 1, 2>>
    /\ The(LastTwo(The(ev.indicator)))[1] = 0
    /\ The(LastTwo(The(ev.indicator)))[2] > 0
    /\ ~The(ev.indicator).macd.crossover

\* C34 with the comparison the code makes: the flag is true exactly when
\* the second-to-last value is below 0 and the last is above 0.
C34_CrossoverFromBelowZero ==
    ev.op = "calculate_macd"
      => (The(ev.indicator).macd.crossover
            <=> /\ ~IsNone(LastTwo(The(ev.indicator)))
                /\ The(LastTwo(The(ev.indicator)))[1] < 0
                /\ The(LastTwo(The(ev.indicator)))[2] > 0)

\* the histogram went from below 0 to above 0 and the flag is true
C34_CrossedWitness ==
    /\ ev.op = "calculate_macd"
    /\ The(ev.indicator).macd.crossover

\* ----------------------------------------------------------------------- C35
\* C35: the trailing flag is false when a position is created; a tick on a
\* position whose flag is false sets it when the unrealized profit is above
\* 1% and leaves it false when the profit is 1% or less; a tick on a position
\* whose flag is true leaves it true, whatever the price; and the flag is
\* false whenever the Trader holds no position.
C35_TrailingFlag ==
    [][/\ PositionCreated => ~trader'.trailing_stop_active
       /\ IsNone(trader'.current_position) => ~trader'.trailing_stop_active
       /\ (ev'.ticked /\ ~IsNone(trader.current_position))
            => IF IsNone(ev'.price)
               THEN TickFields(ev', trader').trailing_stop_active
                        = trader.trailing_stop_active
               ELSE TickFields(ev', trader').trailing_stop_active
                        = (\/ trader.trailing_stop_active
                           \/ ProfitBp(The(ev'.price),
                                       The(trader.current_position).entry_price)
                                  > TrailActivateBp)]_vars

\* the first tick of a position entered at 30.0 fetched 30.3, a profit of
\* exactly 1%, and the flag is set
C35_Witness ==
    /\ ev.ticked
    /\ ev.price = Some(303)
    /\ ~IsNone(trader.current_position)
    /\ The(trader.current_position).entry_price = 300
    /\ trader.highest_price = 303
    /\ trader.trailing_stop_active

\* C35 away from a profit of exactly 1%: the flag is false at creation and
\* whenever no position is held, a tick with a profit above 1% sets it, a tick
\* with a profit below 1% leaves it as it was, as does a tick whose price fetch
\* failed, and a flag that is set stays set while the position is held.
C35_TrailingFlagOffTheBoundary ==
    [][/\ PositionCreated => ~trader'.trailing_stop_active
       /\ IsNone(trader'.current_position) => ~trader'.trailing_stop_active
       /\ (ev'.ticked /\ ~IsNone(trader.current_position))
            => /\ trader.trailing_stop_active
                    => TickFields(ev', trader').trailing_stop_active
               /\ IsNone(ev'.price)
                    => TickFields(ev', trader').trailing_stop_active
                           = trader.trailing_stop_active
               /\ (/\ ~IsNone(ev'.price)
                   /\ ProfitBp(The(ev'.price),
                               The(trader.current_position).entry_price)
                          # TrailActivateBp)
                    => TickFields(ev', trader').trailing_stop_active
                           = (\/ trader.trailing_stop_active
                              \/ ProfitBp(The(ev'.price),
                                          The(trader.current_position).entry_price)
                                     > TrailActivateBp)]_vars

\* the tick of a position entered at 100.0 fetched 101.0, a profit of
\* exactly 1%, and the flag is not set
C35_ExactWitness ==
    /\ ev.ticked
    /\ ev.price = Some(1010)
    /\ ~IsNone(trader.current_position)
    /\ The(trader.current_position).entry_price = 1000
    /\ ~trader.trailing_stop_active

\* ----------------------------------------------------------------------- C36
\* C36: when the statistics read, the scan, enter_trade or the monitoring
\* tick of a loop iteration raises, the loop goes on (run is still in its
\* loop and running is true), the iteration ends with the 60 s back-off as
\* its last sleep, and it made one attempt: at most one buy order, at most
\* one sell order and at most one new ledger row, and none of the steps
\* that come after the one that raised.
C36_ErrorDoesNotEndLoop ==
    [][(ev'.ret = "raise" /\ ev'.op \in {"governor", "scan", "monitor"})
          => /\ pc' = "loop"
             /\ running'
             /\ Len(ev'.sleeps) >= 1
             /\ ev'.sleeps[Len(ev'.sleeps)] = ErrorSleep
             /\ \A i \in 1..(Len(ev'.sleeps) - 1) : ev'.sleeps[i] = PAUSE_AFTER_LOSSES
             /\ Len(db'.trades) <= Len(db.trades) + 1
             /\ ev'.op = "governor" => (~ev'.scanned /\ ev'.buy = "none")
             /\ ev'.op \in {"governor", "scan"} => ev'.sell = "none"
             /\ ev'.op = "monitor" => (ev'.buy = "none" /\ ~ev'.scanned)
             /\ stats'.trades_today = stats.trades_today]_vars

\* the ledger raised inside a monitoring tick after the sell filled, and the
\* loop is still running
C36_Witness ==
    /\ ev.op = "monitor"
    /\ ev.ret = "raise"
    /\ ev.sell = "filled"
    /\ ev.sleeps = <<ErrorSleep>>
    /\ pc = "loop"
    /\ running

\* the scan raised, and the entry raised at the ledger after its buy filled
C36_ScanWitness ==
    /\ ev.op = "scan"
    /\ ev.ret = "raise"
    /\ ev.buy = "none"
    /\ pc = "loop" /\ running

C36_EntryWitness ==
    /\ ev.op = "scan"
    /\ ev.ret = "raise"
    /\ ev.buy = "filled"
    /\ pc = "loop" /\ running

\* ----------------------------------------------------------------------- C37
\* the position the step's exit_trade was called on
SoldPosition(e) ==
    IF e.sell = "filled" /\ ~IsNone(e.at_exit)
    THEN The(e.at_exit).current_position ELSE None

\* C37: a position has at most one filled sell order: no step fills a sell
\* order for a position for which the step before has filled one.
C37_OneFilledSellPerPosition ==
    [][~IsNone(SoldPosition(ev)) => SoldPosition(ev') # SoldPosition(ev)]_vars

\* a tick sold the position and log_trade_exit raised before its UPDATE: the
\* Trader still holds the position and its row is OPEN
C37_Witness ==
    /\ ev.sell = "filled"
    /\ ev.ret = "raise"
    /\ SoldPosition(ev) = trader.current_position
    /\ ~IsNone(trader.current_position)
    /\ db.trades[The(trader.current_position).trade_id].status = "OPEN"

\* the shutdown handler ran inside an exit_trade whose sell had filled and
\* filled a second sell order for the same position
C37_SignalWitness ==
    /\ ev.op = "shutdown"
    /\ ev.during = "exit_trade"
    /\ ev.sold_before
    /\ ev.sell = "filled"

\* ----------------------------------------------------------------------- C38
\* C38: every filled buy is managed: a step whose buy order filled leaves the
\* Trader holding a position whose ledger row is OPEN.
C38_FilledBuyIsManaged ==
    [][ev'.buy = "filled"
          => /\ ~IsNone(trader'.current_position)
             /\ \E id \in {The(trader'.current_position).trade_id} :
                   /\ id \in RowIds(db'.trades)
                   /\ db'.trades[id].status = "OPEN"]_vars

\* the buy filled, log_trade_entry raised, and the Trader is FLAT with no OPEN
\* row in the ledger
C38_Witness ==
    /\ ev.buy = "filled"
    /\ ev.ret = "raise"
    /\ IsNone(trader.current_position)
    /\ \A i \in 1..Len(db.trades) : db.trades[i].status # "OPEN"

\* the signal arrived inside enter_trade after the buy filled and before the
\* position was stored: the handler found nothing to exit
C38_SignalWitness ==
    /\ ev.op = "shutdown"
    /\ ev.during = "enter_trade"
    /\ ev.buy = "filled"
    /\ ev.sell = "none"
    /\ IsNone(trader.current_position)
    /\ pc = "exited"

\* after a restart the ledger holds an OPEN row and the Trader is FLAT
C38_RestartWitness ==
    /\ ev.op = "restart"
    /\ IsNone(trader.current_position)
    /\ \E i \in 1..Len(db.trades) : db.trades[i].status = "OPEN"

\* ----------------------------------------------------------------------- C39
\* the CLOSED rows of the trades table
ClosedTrades(table) == {i \in 1..Len(table) : table[i].status = "CLOSED"}

\* the trades the rows of the performance table count, all days together
RECURSIVE CountedTrades(_)
CountedTrades(rows) ==
    IF rows = {} THEN 0
    ELSE LET r == CHOOSE x \in rows : TRUE
         IN  r.total_trades + CountedTrades(rows \ {r})

\* C39: every CLOSED trade is counted in exactly one day's aggregate: the
\* performance table has one row for a date at most, and its rows together
\* count as many trades as the trades table has CLOSED rows.
C39_ClosedTradeCountedOnce ==
    /\ \A r1, r2 \in db.performance : r1.date = r2.date => r1 = r2
    /\ CountedTrades(db.performance) = Cardinality(ClosedTrades(db.trades))

\* a trade entered on day 0 was sold and closed on day 1, and no row of the
\* performance table counts a trade
C39_Witness ==
    /\ today = 1
    /\ ev.sell = "filled"
    /\ \E i \in ClosedTrades(db.trades) :
          /\ db.trades[i].date = 0
          /\ The(db.trades[i].duration) = 1
    /\ CountedTrades(db.performance) = 0

\* C39 for the trades closed on the date of their entry: when no CLOSED trade
\* was held over midnight, the rows count every CLOSED trade once.
C39_SameDayTradeCountedOnce ==
    (\A i \in ClosedTrades(db.trades) : The(db.trades[i].duration) = 0)
        => /\ \A r1, r2 \in db.performance : r1.date = r2.date => r1 = r2
           /\ CountedTrades(db.performance) = Cardinality(ClosedTrades(db.trades))

\* two trades entered and closed on two different days are counted, one in
\* the row of each day
C39_SameDayWitness ==
    /\ Cardinality(ClosedTrades(db.trades)) = 2
    /\ \A i \in ClosedTrades(db.trades) : The(db.trades[i].duration) = 0
    /\ \E r \in db.performance : r.date = 0 /\ r.total_trades = 1
    /\ \E r \in db.performance : r.date = 1 /\ r.total_trades = 1

\* ----------------------------------------------------------------------- C40
\* the Trader holds the position of the ledger row id
Held(id) ==
    /\ ~IsNone(trader.current_position)
    /\ The(trader.current_position).trade_id = id

\* the position of the ledger row id is closed: the row is CLOSED and the
\* Trader does not hold it
Closed(id) ==
    /\ ~Held(id)
    /\ id <= Len(db.trades)
    /\ db.trades[id].status = "CLOSED"

====
